---- MODULE Spec2Model ----
(***************************************************************************)
(* Verification model of my-data-toolbox.                                  *)
(*                                                                         *)
(* Three layers are modelled:                                              *)
(*   - the data core behind /api/generate, /api/anonymize, /api/analyze    *)
(*     and /api/random-json (value synthesizer, skeleton walker,           *)
(*     classifier, anonymizer, random document generator);                 *)
(*   - the web front end: APIClient (src/src/lib/api-client.ts) and the    *)
(*     views that call it;                                                 *)
(*   - the Electron main process handlers (src/electron/main.js).          *)
(*                                                                         *)
(* The Python modules of the data core (lib/data_generator.py,             *)
(* lib/data_anonymizer.py, api/*.py) are not part of the source tree that  *)
(* is modelled; their definitions below follow the design specification    *)
(* (sections 3 to 7) and are marked as such in the model map.              *)
(***************************************************************************)
EXTENDS Integers, Sequences, FiniteSets, TLC

VARIABLES
    calls,      \* data core: one record per request-handler invocation
    web,        \* web front end: the views' React state
    wire,       \* web front end: the request in flight and its HTTP response
    el,         \* Electron main process: one record per ipc invocation
    files,      \* Electron main process: the temporary files that exist
    procs,      \* Electron main process: the spawned backend processes
    clock,      \* Electron main process: the value Date.now() returns
    platform,   \* the deployment: the web app, or the Electron app
    upload,     \* web front end: a FileUpload component
    updater,    \* Electron main process: the window and the update machinery
    xmlPath,    \* web front end: the XmlPathView component
    genView,    \* web front end: a GenerateView and the handlers it has running
    roundTrip   \* web front end: a JSON object, its OpenAPI schema, its skeleton

coreVars == <<calls>>
webVars  == <<web, wire>>
elVars   == <<el, files, procs, clock>>
\* the components that take no part in a request
shellVars == <<upload, updater, xmlPath, genView, roundTrip>>
vars     == <<calls, web, wire, el, files, procs, clock, platform, upload, updater,
             xmlPath, genView, roundTrip>>

(***************************************************************************)
(* Bounds of the model.                                                    *)
(***************************************************************************)
\* seeds a caller may pass: 0 .. MaxSeed
MaxSeed == 2
\* repetition counts a caller may pass: 0 .. MaxCount
MaxCount == 2
\* depths a caller may ask a random document for: 0 .. MaxDepth
MaxDepth == 2
\* fan-out budgets (maxKeys, maxItems) a caller may pass: 1 .. MaxFanout
MaxFanout == 2
\* number of states of the pseudo-random source
RngMod == 8
\* number of distinct values in each realistic-data pool
PoolSize == 3
\* values Date.now() takes while the Electron handlers run: 0 .. MaxClock
MaxClock == 1
\* files a FileUpload component passes on while it is mounted
MaxFiles == 2
\* update checks handed to autoUpdater while the app runs
MaxChecks == 3
\* requests an XmlPathView makes while it is mounted
MaxXPathRequests == 2
\* invocations of the handlers of a GenerateView while it is mounted
MaxHandlers == 3
\* nesting of the values of the JSON objects converted to a schema and back
MaxJsonDepth == 2

(***************************************************************************)
(* Optional values (a JavaScript `undefined` / a missing JSON member) are  *)
(* sequences of length at most one.                                        *)
(***************************************************************************)
None == <<>>
Some(x) == <<x>>
IsSome(o) == Len(o) = 1
Get(o) == o[1]

(***************************************************************************)
(* Documents: the generic object / array / scalar shape of section 3.      *)
(* A scalar carries its JSON type `t`, the kind of real-world value it is  *)
(* `c` (the pool it was written from) and which value of that pool `n`.    *)
(* An object is an ordered sequence of fields.                             *)
(***************************************************************************)
Scalar(t, c, n) == [k |-> "scalar", t |-> t, c |-> c, n |-> n]
Str(c, n) == Scalar("string", c, n)
Num(n) == Scalar("number", "integer", n)
Bool(n) == Scalar("boolean", "boolean", n)
Null == Scalar("null", "null", 0)
Fld(key, v) == [key |-> key, v |-> v]
Obj(f) == [k |-> "object", f |-> f]
Arr(e) == [k |-> "array", e |-> e]

IsScalar(d) == d.k = "scalar"
IsObject(d) == d.k = "object"
IsArray(d) == d.k = "array"

\* the wildcard path segment that stands for any array index
Wild == "*"

(***************************************************************************)
(* Pseudo-random source: a value threaded through every function that      *)
(* needs randomness (section 4.3, "Determinism").                          *)
(***************************************************************************)
RngStates == 0 .. (RngMod - 1)
SeedRng(seed) == seed % RngMod
NextRng(r) == (5 * r + 3) % RngMod
Draw(r, n) == r % n

(***************************************************************************)
(* Semantic categories (section 3).                                        *)
(***************************************************************************)
\* the key-name pattern table, in evaluation order: <<pattern, category>>
KeyPatterns ==
    << <<"email", "email">>, <<"phone", "phone">>, <<"tel", "phone">>,
       <<"name", "name">>, <<"addr", "address">> >>

\* case-insensitive substring test of a pattern against a key name, for the
\* key names that occur in the documents of this model
KeyContains(key, pat) ==
    CASE key = "email"        -> pat = "email"
      [] key = "contactEmail" -> pat = "email"
      [] key = "phone"        -> pat = "phone"
      [] key = "telephone"    -> pat \in {"tel", "phone"}
      [] key = "name"         -> pat = "name"
      [] key = "username"     -> pat = "name"
      [] key = "address"      -> pat = "addr"
      [] key = "fullName"     -> pat = "name"
      [] OTHER                -> FALSE

RECURSIVE FirstPattern(_, _)
FirstPattern(key, i) ==
    IF i > Len(KeyPatterns) THEN None
    ELSE IF KeyContains(key, KeyPatterns[i][1]) THEN Some(KeyPatterns[i][2])
    ELSE FirstPattern(key, i + 1)

\* signal (2) of section 3: the category the key name matches, if any
KeyNameCategory(key) == FirstPattern(key, 1)

\* signal (3) of section 3: the category the example value's shape shows
ValueShapeCategory(v) ==
    CASE v.t = "string" /\ v.c \in {"email", "phone", "date", "uuid"} -> Some(v.c)
      [] v.t = "number"  -> Some("integer")
      [] v.t = "boolean" -> Some("boolean")
      [] OTHER           -> None

\* signal (1) of section 3: the category an explicit schema format/type gives
FormatCategory(cd) ==
    CASE cd.format \in {"email", "uuid", "date", "uri"} -> Some(cd.format)
      [] cd.format = "date-time"                         -> Some("date")
      [] cd.type = "integer" \/ cd.type = "number"       -> Some("integer")
      [] cd.type = "boolean"                             -> Some("boolean")
      [] OTHER                                           -> None

(***************************************************************************)
(* Constraint descriptors (section 3) and the path-indexed constraints a   *)
(* schema resolves to (section 4.2).                                       *)
(***************************************************************************)
\* minimum/maximum (numeric) and minLength/maxLength (string), each optional
Bounds(minimum, maximum, minLength, maxLength) ==
    [minimum |-> minimum, maximum |-> maximum,
     minLength |-> minLength, maxLength |-> maxLength]
NoBounds == Bounds(None, None, None, None)

Descriptor(type, format, enum, required) ==
    [type |-> type, format |-> format, enum |-> enum, required |-> required,
     bounds |-> NoBounds]

\* a schema fragment of OpenAPI shape: type, format, enum, properties (an
\* ordered sequence of <<name, schema>> fields), items, required[], bounds,
\* and $ref (the name of a component schema, "" when there is none)
Schema(type, format, enum, props, items, required) ==
    [type |-> type, format |-> format, enum |-> enum, props |-> props,
     items |-> items, required |-> required, bounds |-> NoBounds, ref |-> ""]
SRef(name) == [Schema("", "", <<>>, <<>>, None, <<>>) EXCEPT !.ref = name]
SLeaf(type, format, enum) == Schema(type, format, enum, <<>>, None, <<>>)
SObj(props, required) == Schema("object", "", <<>>, props, None, required)
SArr(items) == Schema("array", "", <<>>, <<>>, Some(items), <<>>)
SInteger(minimum, maximum) ==
    [SLeaf("integer", "", <<>>) EXCEPT !.bounds = Bounds(minimum, maximum, None, None)]
SString(minLength, maxLength) ==
    [SLeaf("string", "", <<>>) EXCEPT !.bounds = Bounds(None, None, minLength, maxLength)]

KnownTypes == {"object", "array", "string", "integer", "number", "boolean"}
InSeq(x, s) == \E i \in 1 .. Len(s) : s[i] = x
Prop(name, s) == [name |-> name, s |-> s]

\* the component schemas a $ref names: one that refers to itself, two that
\* refer to each other, one without a cycle
Components ==
    [Node |-> SObj(<< Prop("id", SLeaf("integer", "", << >>)),
                      Prop("next", SRef("Node")) >>, << "id" >>),
     Ping |-> SObj(<< Prop("pong", SRef("Pong")) >>, << >>),
     Pong |-> SObj(<< Prop("n", SLeaf("integer", "", << >>)),
                      Prop("ping", SRef("Ping")) >>, << "ping" >>),
     Tag  |-> SLeaf("string", "uuid", << >>)]

\* the empty constraint (type: unknown)
EmptyConstraint(req) == Descriptor("unknown", "", <<>>, req)

\* faulty variant: a malformed fragment leaves no entry at all
DegradeToNothing(path, req) == << >>

\* a malformed fragment: its subtree resolves to the empty constraint
Degrade(path, req) == << [path |-> path, cd |-> EmptyConstraint(req)] >>

RECURSIVE ResolveNode(_, _, _, _)
RECURSIVE ResolveProps(_, _, _, _, _)
\* the <<path, descriptor>> entries of a schema fragment and its subtree;
\* `seen` holds the components being expanded above the fragment
ResolveNode(s, path, req, seen) ==
    LET self == [path |-> path,
                 cd |-> [Descriptor(s.type, s.format, s.enum, req)
                            EXCEPT !.bounds = s.bounds]]
    IN  IF s.ref # ""
        THEN IF s.ref \in seen THEN Degrade(path, req)
             ELSE ResolveNode(Components[s.ref], path, req, seen \cup {s.ref})
        ELSE IF s.type \notin KnownTypes THEN Degrade(path, req)
        ELSE IF s.type = "object" THEN <<self>> \o ResolveProps(s, 1, path, <<>>, seen)
        ELSE IF s.type = "array" /\ IsSome(s.items)
        THEN <<self>> \o ResolveNode(Get(s.items), Append(path, Wild), FALSE, seen)
        ELSE <<self>>
ResolveProps(s, i, path, acc, seen) ==
    IF i > Len(s.props) THEN acc
    ELSE ResolveProps(s, i + 1, path,
            acc \o ResolveNode(s.props[i].s, Append(path, s.props[i].name),
                               InSeq(s.props[i].name, s.required), seen),
            seen)

\* resolve(schema): the path-indexed constraints; no schema, no constraints
Resolve(schema) ==
    IF ~IsSome(schema) THEN [p \in {} |-> Descriptor("unknown", "", <<>>, FALSE)]
    ELSE LET es == ResolveNode(Get(schema), <<>>, FALSE, {})
         IN  [p \in {es[i].path : i \in 1 .. Len(es)} |->
                 es[CHOOSE i \in 1 .. Len(es) :
                        es[i].path = p /\ \A j \in 1 .. (i - 1) : es[j].path # p].cd]

\* lookup(index, path): the descriptor at the path, or absent
Lookup(index, path) ==
    IF path \in DOMAIN index THEN Some(index[path]) ELSE None

\* the key of a leaf: the last object key on its path
RECURSIVE LeafKey(_)
LeafKey(path) ==
    IF Len(path) = 0 THEN ""
    ELSE IF path[Len(path)] # Wild THEN path[Len(path)]
    ELSE LeafKey(SubSeq(path, 1, Len(path) - 1))

\* faulty variant: the key name is consulted before the schema
InferCategoryKeyFirst(path, value, cd) ==
    LET s == IF IsSome(cd) THEN FormatCategory(Get(cd)) ELSE None
        n == KeyNameCategory(LeafKey(path))
        v == ValueShapeCategory(value)
    IN  IF IsSome(n) THEN Get(n)
        ELSE IF IsSome(s) THEN Get(s)
        ELSE IF IsSome(v) THEN Get(v)
        ELSE "unknown"

\* the category of a skeleton leaf, by the priority order of section 3
InferCategory(path, value, cd) ==
    LET s == IF IsSome(cd) THEN FormatCategory(Get(cd)) ELSE None
        n == KeyNameCategory(LeafKey(path))
        v == ValueShapeCategory(value)
    IN  IF IsSome(s) THEN Get(s)
        ELSE IF IsSome(n) THEN Get(n)
        ELSE IF IsSome(v) THEN Get(v)
        ELSE "unknown"

(***************************************************************************)
(* 4.1 Value Synthesizer.                                                  *)
(***************************************************************************)
CategoryType(cat) ==
    CASE cat = "integer" -> "number"
      [] cat = "boolean" -> "boolean"
      [] OTHER           -> "string"

\* one value of the category's pool, chosen by the rng
PoolValue(cat, rng) ==
    IF cat = "unknown" THEN Str("freeText", Draw(rng, PoolSize))
    ELSE Scalar(CategoryType(cat), cat, Draw(rng, PoolSize))

\* the iteration cap of reject-and-retry
RetryCap == 3

\* what a bound measures: a number's value, a string's length (the pool
\* string of index n has n + 1 characters; index -1 is the empty string)
Measure(v) == IF v.t = "number" THEN v.n ELSE v.n + 1
\* the bounds that apply to a value of this type
LowerBound(v, b) ==
    CASE v.t = "number" -> b.minimum
      [] v.t = "string" -> b.minLength
      [] OTHER          -> None
UpperBound(v, b) ==
    CASE v.t = "number" -> b.maximum
      [] v.t = "string" -> b.maxLength
      [] OTHER          -> None
InBounds(v, b) ==
    /\ IsSome(LowerBound(v, b)) => Measure(v) >= Get(LowerBound(v, b))
    /\ IsSome(UpperBound(v, b)) => Measure(v) <= Get(UpperBound(v, b))
\* the value of the given measure
WithMeasure(v, m) == [v EXCEPT !.n = IF v.t = "number" THEN m ELSE m - 1]

RECURSIVE RngAfter(_, _)
\* the generator state after k draws
RngAfter(rng, k) == IF k = 0 THEN rng ELSE RngAfter(NextRng(rng), k - 1)

\* faulty variant: on cap exhaustion the last sample is returned as it is
ClampNever(v, b) == v

\* clamp to the nearest bound
Clamp(v, b) ==
    IF IsSome(LowerBound(v, b)) /\ Measure(v) < Get(LowerBound(v, b))
    THEN WithMeasure(v, Get(LowerBound(v, b)))
    ELSE IF IsSome(UpperBound(v, b)) /\ Measure(v) > Get(UpperBound(v, b))
    THEN WithMeasure(v, Get(UpperBound(v, b)))
    ELSE v

RECURSIVE Resample(_, _, _, _)
\* reject-and-retry: sample until within bounds, clamp the last sample when
\* the cap is reached; `tries` counts the samples drawn
Resample(cat, b, rng, tries) ==
    LET v == PoolValue(cat, rng)
    IN  IF InBounds(v, b)
        THEN [val |-> v, rng |-> NextRng(rng), tries |-> tries + 1]
        ELSE IF tries + 1 >= RetryCap
        THEN [val |-> Clamp(v, b), rng |-> NextRng(rng), tries |-> tries + 1]
        ELSE Resample(cat, b, NextRng(rng), tries + 1)

\* synthesize(category, constraints, rng): the value and the advanced rng
Synthesize(cat, cd, rng) ==
    IF IsSome(cd) /\ Len(Get(cd).enum) > 0
    THEN [val |-> Get(cd).enum[Draw(rng, Len(Get(cd).enum)) + 1],
          rng |-> NextRng(rng)]
    ELSE IF IsSome(cd) /\ Get(cd).bounds # NoBounds
    THEN LET r == Resample(cat, Get(cd).bounds, rng, 0)
         IN  [val |-> r.val, rng |-> r.rng]
    ELSE [val |-> PoolValue(cat, rng), rng |-> NextRng(rng)]

(***************************************************************************)
(* 4.3 Skeleton Walker / Generator.                                        *)
(***************************************************************************)
\* repetition count of an array template when options.count is not set
DefaultCount == 1

\* a scalar leaf: infer the category, look the constraint up, synthesize;
\* a null leaf with no better signal stays null and draws nothing
GenLeaf(node, path, index, rng) ==
    LET cd  == Lookup(index, path)
        cat == InferCategory(path, node, cd)
    IN  IF node.t = "null" /\ cat = "unknown" /\ ~(IsSome(cd) /\ Len(Get(cd).enum) > 0)
        THEN [doc |-> node, rng |-> rng]
        ELSE LET s == Synthesize(cat, cd, rng)
             IN  [doc |-> s.val, rng |-> s.rng]

RECURSIVE GenNode(_, _, _, _, _)
RECURSIVE GenFields(_, _, _, _, _, _, _)
RECURSIVE GenElems(_, _, _, _, _, _, _)
RECURSIVE GenReps(_, _, _, _, _, _, _)

\* object: each key in the skeleton's own order, path extended by the key
GenFields(fs, i, path, index, n, rng, acc) ==
    IF i > Len(fs) THEN [doc |-> Obj(acc), rng |-> rng]
    ELSE LET r == GenNode(fs[i].v, Append(path, fs[i].key), index, n, rng)
         IN  GenFields(fs, i + 1, path, index, n, r.rng,
                       Append(acc, Fld(fs[i].key, r.doc)))

\* array of several elements: each element in place, at its own index
GenElems(es, i, path, index, n, rng, acc) ==
    IF i > Len(es) THEN [doc |-> Arr(acc), rng |-> rng]
    ELSE LET r == GenNode(es[i], Append(path, Wild), index, n, rng)
         IN  GenElems(es, i + 1, path, index, n, r.rng, Append(acc, r.doc))

\* array of one template element: the template generated n times
GenReps(tmpl, left, path, index, n, rng, acc) ==
    IF left = 0 THEN [doc |-> Arr(acc), rng |-> rng]
    ELSE LET r == GenNode(tmpl, Append(path, Wild), index, n, rng)
         IN  GenReps(tmpl, left - 1, path, index, n, r.rng, Append(acc, r.doc))

\* faulty variant: every non-empty array is taken for a template
GenNodeAllTemplates(node, path, index, n, rng) ==
    CASE IsObject(node) -> GenFields(node.f, 1, path, index, n, rng, <<>>)
      [] IsArray(node)  ->
            IF Len(node.e) >= 1
            THEN GenReps(node.e[1], n, path, index, n, rng, <<>>)
            ELSE GenElems(node.e, 1, path, index, n, rng, <<>>)
      [] OTHER          -> GenLeaf(node, path, index, rng)

GenNode(node, path, index, n, rng) ==
    CASE IsObject(node) -> GenFields(node.f, 1, path, index, n, rng, <<>>)
      [] IsArray(node)  ->
            IF Len(node.e) = 1
            THEN GenReps(node.e[1], n, path, index, n, rng, <<>>)
            ELSE GenElems(node.e, 1, path, index, n, rng, <<>>)
      [] OTHER          -> GenLeaf(node, path, index, rng)

\* generate(skeleton, constraints, options) with the rng created for the call
Generate(skeleton, index, count, rng) ==
    GenNode(skeleton, <<>>, index,
            IF IsSome(count) THEN Get(count) ELSE DefaultCount, rng).doc

(***************************************************************************)
(* 4.5 Sensitive-Field Classifier.                                         *)
(***************************************************************************)
RECURSIVE Leaves(_, _)
RECURSIVE LeavesOfFields(_, _, _)
RECURSIVE LeavesOfElems(_, _, _)
\* the scalar leaves of a document, <<path, value>>, in traversal order
Leaves(node, path) ==
    CASE IsObject(node) -> LeavesOfFields(node.f, 1, path)
      [] IsArray(node)  -> LeavesOfElems(node.e, 1, path)
      [] OTHER          -> << [path |-> path, v |-> node] >>
LeavesOfFields(fs, i, path) ==
    IF i > Len(fs) THEN <<>>
    ELSE Leaves(fs[i].v, Append(path, fs[i].key)) \o LeavesOfFields(fs, i + 1, path)
LeavesOfElems(es, i, path) ==
    IF i > Len(es) THEN <<>>
    ELSE Leaves(es[i], Append(path, Wild)) \o LeavesOfElems(es, i + 1, path)

\* value-shape signal: the string looks like an email, a phone number, a
\* date of birth or a national id
SensitiveShape(v) ==
    v.t = "string" /\ v.c \in {"email", "phone", "date", "nationalId"}

\* free-text notes/comment fields that contain one of the patterns
SensitiveNote(key, v) ==
    key \in {"notes", "comment"} /\ v.t = "string" /\ v.c = "textWithEmail"

\* the category a leaf is flagged with, if either signal matches
LeafSensitivity(path, v) ==
    LET kc == KeyNameCategory(LeafKey(path))
    IN  IF IsSome(kc) THEN kc
        ELSE IF SensitiveShape(v) THEN Some(v.c)
        ELSE IF SensitiveNote(LeafKey(path), v) THEN Some("freeText")
        ELSE None

RECURSIVE ClassifyLeaves(_, _, _)
ClassifyLeaves(ls, i, acc) ==
    IF i > Len(ls) THEN acc
    ELSE LET s == LeafSensitivity(ls[i].path, ls[i].v)
         IN  IF IsSome(s) /\ ~(\E j \in 1 .. Len(acc) : acc[j].path = ls[i].path)
             THEN ClassifyLeaves(ls, i + 1, Append(acc, [path |-> ls[i].path, cat |-> Get(s)]))
             ELSE ClassifyLeaves(ls, i + 1, acc)

\* classify(document): the sensitive paths, in traversal order, each with
\* the category that matched
Classify(doc) == ClassifyLeaves(Leaves(doc, <<>>), 1, <<>>)

\* analyze(document): {sensitiveFields, totalFields}
Analyze(doc) ==
    LET sp == Classify(doc)
    IN  [sensitiveFields |-> [i \in 1 .. Len(sp) |-> sp[i].path],
         totalFields |-> Len(Leaves(doc, <<>>))]

(***************************************************************************)
(* 4.6 Anonymizer.                                                         *)
(***************************************************************************)
\* the category classify matched at a path, if the path is flagged
FlaggedAs(sp, path) ==
    IF \E i \in 1 .. Len(sp) : sp[i].path = path
    THEN Some(sp[CHOOSE i \in 1 .. Len(sp) : sp[i].path = path].cat)
    ELSE None

RECURSIVE AnonNode(_, _, _, _)
RECURSIVE AnonFields(_, _, _, _, _, _)
RECURSIVE AnonElems(_, _, _, _, _, _)
\* value substitution over a fixed structure: flagged leaves are replaced by
\* a value of the same category, everything else is copied
\* faulty variant: every string leaf is replaced, flagged or not
AnonNodeEveryString(node, path, sp, rng) ==
    CASE IsObject(node) -> AnonFields(node.f, 1, path, sp, rng, <<>>)
      [] IsArray(node)  -> AnonElems(node.e, 1, path, sp, rng, <<>>)
      [] OTHER          ->
            LET c == FlaggedAs(sp, path)
            IN  IF IsSome(c) \/ node.t = "string"
                THEN LET s == Synthesize(IF IsSome(c) THEN Get(c) ELSE "unknown", None, rng)
                     IN  [doc |-> s.val, rng |-> s.rng]
                ELSE [doc |-> node, rng |-> rng]

AnonNode(node, path, sp, rng) ==
    CASE IsObject(node) -> AnonFields(node.f, 1, path, sp, rng, <<>>)
      [] IsArray(node)  -> AnonElems(node.e, 1, path, sp, rng, <<>>)
      [] OTHER          ->
            LET c == FlaggedAs(sp, path)
            IN  IF IsSome(c)
                THEN LET s == Synthesize(Get(c), None, rng)
                     IN  [doc |-> s.val, rng |-> s.rng]
                ELSE [doc |-> node, rng |-> rng]
\* faulty variant: a flagged field is removed instead of replaced
AnonFieldsRedacting(fs, i, path, sp, rng, acc) ==
    IF i > Len(fs) THEN [doc |-> Obj(acc), rng |-> rng]
    ELSE IF IsScalar(fs[i].v) /\ IsSome(FlaggedAs(sp, Append(path, fs[i].key)))
    THEN AnonFields(fs, i + 1, path, sp, rng, acc)
    ELSE LET r == AnonNode(fs[i].v, Append(path, fs[i].key), sp, rng)
         IN  AnonFields(fs, i + 1, path, sp, r.rng, Append(acc, Fld(fs[i].key, r.doc)))

AnonFields(fs, i, path, sp, rng, acc) ==
    IF i > Len(fs) THEN [doc |-> Obj(acc), rng |-> rng]
    ELSE LET r == AnonNode(fs[i].v, Append(path, fs[i].key), sp, rng)
         IN  AnonFields(fs, i + 1, path, sp, r.rng, Append(acc, Fld(fs[i].key, r.doc)))
AnonElems(es, i, path, sp, rng, acc) ==
    IF i > Len(es) THEN [doc |-> Arr(acc), rng |-> rng]
    ELSE LET r == AnonNode(es[i], Append(path, Wild), sp, rng)
         IN  AnonElems(es, i + 1, path, sp, r.rng, Append(acc, r.doc))

\* anonymize(document): classify, then transform
Anonymize(doc, rng) == AnonNode(doc, <<>>, Classify(doc), rng).doc

(***************************************************************************)
(* 4.4 Random Document Generator.                                          *)
(***************************************************************************)
\* the categories a random scalar leaf is chosen from
RandomCategories == <<"name", "email", "integer", "boolean", "date">>
\* the synthesized identifiers children are named with
RandomKeyNames == <<"alpha", "beta", "gamma", "delta", "epsilon", "zeta">>

\* a scalar leaf of a randomly chosen category
RandLeaf(rng) ==
    LET cat == RandomCategories[Draw(rng, Len(RandomCategories)) + 1]
    IN  Synthesize(cat, None, NextRng(rng))

RECURSIVE RandItems(_, _, _)
\* an array of scalar leaves
RandItems(left, rng, acc) ==
    IF left = 0 THEN [doc |-> Arr(acc), rng |-> rng]
    ELSE LET s == RandLeaf(rng)
         IN  RandItems(left - 1, s.rng, Append(acc, s.val))

RECURSIVE RandObject(_, _, _, _)
RECURSIVE RandChildren(_, _, _, _, _, _, _)
\* one level: up to maxKeys children; a child is a nested object (only while
\* depth remains), an array of up to maxItems scalar leaves, or a scalar leaf
RandObject(depth, maxKeys, maxItems, rng) ==
    RandChildren(1, IF maxKeys = 0 THEN 0 ELSE 1 + Draw(rng, maxKeys),
                 depth, maxKeys, maxItems, NextRng(rng), <<>>)
RandChildren(i, nkeys, depth, maxKeys, maxItems, rng, acc) ==
    IF i > nkeys THEN [doc |-> Obj(acc), rng |-> rng]
    ELSE LET kind == IF depth = 0 THEN 0 ELSE Draw(rng, depth + 2)
             r == CASE kind = 0 -> LET s == RandLeaf(NextRng(rng))
                                   IN  [doc |-> s.val, rng |-> s.rng]
                    [] kind = 1 -> RandItems(IF maxItems = 0 THEN 0
                                             ELSE 1 + Draw(NextRng(rng), maxItems),
                                             NextRng(NextRng(rng)), <<>>)
                    [] OTHER    -> RandObject(depth - 1, maxKeys, maxItems, NextRng(rng))
         IN  RandChildren(i + 1, nkeys, depth, maxKeys, maxItems, r.rng,
                          Append(acc, Fld(RandomKeyNames[i], r.doc)))

\* generateRandom(options) with the rng created for the call
GenerateRandom(depth, maxKeys, maxItems, rng) ==
    RandObject(depth, maxKeys, maxItems, rng).doc

(***************************************************************************)
(* JavaScript numbers as the front end handles them: a number or NaN.      *)
(***************************************************************************)
JsNum(v) == [nan |-> FALSE, v |-> v]
JsNaN == [nan |-> TRUE, v |-> 0]
\* truthiness of a number: neither 0 nor NaN
JsTruthy(x) == ~x.nan /\ x.v # 0

(***************************************************************************)
(* APIClient: the request bodies (src/src/lib/api-client.ts).              *)
(* Every body has the same members; a member the method does not send is   *)
(* None.                                                                   *)
(***************************************************************************)
\* ...(options?.x !== undefined && { x: options.x })
IfDefined(o) == IF o # None THEN o ELSE None
\* ...(x && { x })
IfTruthy(o) == IF o # None THEN o ELSE None

NoOptions ==
    [count |-> None, seed |-> None, depth |-> None, maxKeys |-> None,
     maxItems |-> None]

\* what every method leaves out of its body
EmptyBody ==
    [endpoint |-> "", skeleton |-> None, swagger |-> None, data |-> None,
     options |-> NoOptions]

\* ...(options?.x && { x: options.x }) on a number
IfTruthyNum(o) == IF o # None /\ JsTruthy(Get(o)) THEN o ELSE None

\* faulty variant: the seed is sent only when it is truthy
ApiGenerateSeedIfTruthy(skeleton, swagger, options) ==
    [EmptyBody EXCEPT !.endpoint = "/api/generate",
                      !.skeleton = skeleton,
                      !.swagger = IfTruthy(swagger),
                      !.options = [NoOptions EXCEPT !.count = IfDefined(options.count),
                                                    !.seed = IfTruthyNum(options.seed)]]

\* faulty variant: the count is sent only when it is truthy
ApiGenerateCountIfTruthy(skeleton, swagger, options) ==
    [EmptyBody EXCEPT !.endpoint = "/api/generate",
                      !.skeleton = skeleton,
                      !.swagger = IfTruthy(swagger),
                      !.options = [NoOptions EXCEPT !.count = IfTruthyNum(options.count),
                                                    !.seed = IfDefined(options.seed)]]

\* faulty variant: the schema is not sent
ApiGenerateWithoutSwagger(skeleton, swagger, options) ==
    [EmptyBody EXCEPT !.endpoint = "/api/generate",
                      !.skeleton = skeleton,
                      !.options = [NoOptions EXCEPT !.count = IfDefined(options.count),
                                                    !.seed = IfDefined(options.seed)]]

\* APIClient.generate(skeleton, swagger, options)
ApiGenerate(skeleton, swagger, options) ==
    [EmptyBody EXCEPT !.endpoint = "/api/generate",
                      !.skeleton = skeleton,
                      !.swagger = IfTruthy(swagger),
                      !.options = [NoOptions EXCEPT !.count = IfDefined(options.count),
                                                    !.seed = IfDefined(options.seed)]]

\* APIClient.anonymize(data, options)
ApiAnonymize(data) ==
    [EmptyBody EXCEPT !.endpoint = "/api/anonymize", !.data = data]

\* APIClient.analyze(data)
ApiAnalyze(data) ==
    [EmptyBody EXCEPT !.endpoint = "/api/analyze", !.data = data]

\* faulty variant: the depth is sent only when it is truthy
RandomJsonDepthIfTruthy(options) == IfTruthyNum(options.depth)

\* the depth member of the body of generateRandomJson
RandomJsonDepth(options) == IfDefined(options.depth)

\* APIClient.generateRandomJson(options)
ApiGenerateRandomJson(options) ==
    [EmptyBody EXCEPT !.endpoint = "/api/random-json",
                      !.options = [NoOptions EXCEPT !.seed = IfDefined(options.seed),
                                                    !.depth = RandomJsonDepth(options),
                                                    !.maxKeys = IfDefined(options.maxKeys),
                                                    !.maxItems = IfDefined(options.maxItems)]]

\* APIClient.generateRandomXml(options)
ApiGenerateRandomXml(options) ==
    [EmptyBody EXCEPT !.endpoint = "/api/random-xml",
                      !.options = [NoOptions EXCEPT !.seed = IfDefined(options.seed),
                                                    !.depth = IfDefined(options.depth),
                                                    !.maxKeys = IfDefined(options.maxKeys),
                                                    !.maxItems = IfDefined(options.maxItems)]]

\* what a caller asks the client for: the method and its arguments
ClientCall(op, skeleton, swagger, data, options) ==
    [op |-> op, skeleton |-> skeleton, swagger |-> swagger, data |-> data,
     options |-> options]
NoClientCall == ClientCall("", None, None, None, NoOptions)

\* the body the client sends for a request
ApiCall(req) ==
    CASE req.op = "generate"   -> ApiGenerate(req.skeleton, req.swagger, req.options)
      [] req.op = "anonymize"  -> ApiAnonymize(req.data)
      [] req.op = "analyze"    -> ApiAnalyze(req.data)
      [] req.op = "randomJson" -> ApiGenerateRandomJson(req.options)
      [] req.op = "randomXml"  -> ApiGenerateRandomXml(req.options)
      [] OTHER                 -> EmptyBody

\* JSON.stringify of an optional number: NaN is written as null, which the
\* receiver reads as a missing member
WireNum(o) == IF IsSome(o) /\ Get(o).nan THEN None ELSE o

(***************************************************************************)
(* The data core as request handlers (sections 5, 6 and 7): each           *)
(* invocation validates its input at the boundary, creates its own rng     *)
(* and computes its result.                                                *)
(***************************************************************************)
\* the handler invocations that may run concurrently
Calls == {1, 2}

\* defaults of generateRandom when an option is not sent
DefaultDepth == 3
DefaultMaxKeys == 5
DefaultMaxItems == 5

\* an integer option as the handler reads it from the JSON body
OptInt(o) == IF IsSome(WireNum(o)) THEN Some(Get(o).v) ELSE None
OrDefault(o, d) == IF IsSome(o) THEN Get(o) ELSE d

OpOf(body) ==
    CASE body.endpoint = "/api/generate"    -> "generate"
      [] body.endpoint = "/api/anonymize"   -> "anonymize"
      [] body.endpoint = "/api/analyze"     -> "analyze"
      [] body.endpoint = "/api/random-json" -> "generateRandom"
      [] body.endpoint = "/api/random-xml"  -> "generateRandom"
      [] OTHER                              -> "none"

Negative(o) == IsSome(OptInt(o)) /\ Get(OptInt(o)) < 0

\* section 7: what the boundary rejects before any work starts
BoundaryError(body) ==
    CASE OpOf(body) = "generate" ->
            IF ~IsSome(body.skeleton) THEN "MalformedInput"
            ELSE IF Negative(body.options.count) THEN "InvalidOptions"
            ELSE ""
      [] OpOf(body) \in {"anonymize", "analyze"} ->
            IF ~IsSome(body.data) THEN "MalformedInput" ELSE ""
      [] OpOf(body) = "generateRandom" ->
            IF Negative(body.options.depth) \/ Negative(body.options.maxKeys)
               \/ Negative(body.options.maxItems)
            THEN "InvalidOptions" ELSE ""
      [] OTHER -> "NotFound"

NoResult ==
    [success |-> FALSE, error |-> "", data |-> None, fields |-> <<>>, n |-> 0]
Failure(e) == [NoResult EXCEPT !.error = e]
Success(data, fields, n) ==
    [success |-> TRUE, error |-> "", data |-> data, fields |-> fields, n |-> n]

IdleCall ==
    [st |-> "idle", req |-> NoClientCall, body |-> EmptyBody, rng |-> 0,
     res |-> NoResult]

\* faulty variant: one rng for the whole process
RngOfFirstCall(c) == calls[1].rng

\* the rng a running invocation draws from: its own
RngOf(c) == calls[c].rng

\* the rng states a call may start from: the seed's, or any when no seed is
\* given (a non-deterministic seed)
CreatedRng(body) ==
    LET seed == OptInt(body.options.seed)
    IN  IF IsSome(seed) THEN {SeedRng(Get(seed))} ELSE RngStates

\* the result of each operation, from the body and the rng of the call
GenerateResult(body, rng) ==
    LET doc == Generate(Get(body.skeleton), Resolve(body.swagger),
                        OptInt(body.options.count), rng)
    IN  Success(Some(doc), <<>>, IF IsArray(doc) THEN Len(doc.e) ELSE 1)
AnonymizeResult(body, rng) ==
    Success(Some(Anonymize(Get(body.data), rng)), <<>>,
            Len(Classify(Get(body.data))))
AnalyzeResult(body) ==
    LET a == Analyze(Get(body.data))
    IN  Success(None, a.sensitiveFields, a.totalFields)
RandomResult(body, rng) ==
    Success(Some(GenerateRandom(OrDefault(OptInt(body.options.depth), DefaultDepth),
                                OrDefault(OptInt(body.options.maxKeys), DefaultMaxKeys),
                                OrDefault(OptInt(body.options.maxItems), DefaultMaxItems),
                                rng)),
            <<>>, 1)

\* a request reaches a handler invocation
Received(req) ==
    [IdleCall EXCEPT !.st = "received", !.req = req, !.body = ApiCall(req)]
Receive(c, req) ==
    /\ calls[c].st = "idle"
    /\ calls' = [calls EXCEPT ![c] = Received(req)]
    /\ UNCHANGED <<webVars, elVars, platform, shellVars>>

\* invalid input or options: rejected at the boundary
Reject(c) ==
    /\ calls[c].st = "received"
    /\ BoundaryError(calls[c].body) # ""
    /\ calls' = [calls EXCEPT ![c].st = "failed",
                              ![c].res = Failure(BoundaryError(calls[c].body))]
    /\ UNCHANGED <<webVars, elVars, platform, shellVars>>

\* the rng of the call is created once, from options.seed
CreateRng(c) ==
    /\ calls[c].st = "received"
    /\ BoundaryError(calls[c].body) = ""
    /\ \E r \in CreatedRng(calls[c].body) :
          calls' = [calls EXCEPT ![c].st = "running", ![c].rng = r]
    /\ UNCHANGED <<webVars, elVars, platform, shellVars>>

RunGenerate(c) ==
    /\ calls[c].st = "running"
    /\ OpOf(calls[c].body) = "generate"
    /\ calls' = [calls EXCEPT ![c].st = "done",
                              ![c].res = GenerateResult(calls[c].body, RngOf(c))]
    /\ UNCHANGED <<webVars, elVars, platform, shellVars>>

RunAnonymize(c) ==
    /\ calls[c].st = "running"
    /\ OpOf(calls[c].body) = "anonymize"
    /\ calls' = [calls EXCEPT ![c].st = "done",
                              ![c].res = AnonymizeResult(calls[c].body, RngOf(c))]
    /\ UNCHANGED <<webVars, elVars, platform, shellVars>>

RunAnalyze(c) ==
    /\ calls[c].st = "running"
    /\ OpOf(calls[c].body) = "analyze"
    /\ calls' = [calls EXCEPT ![c].st = "done",
                              ![c].res = AnalyzeResult(calls[c].body)]
    /\ UNCHANGED <<webVars, elVars, platform, shellVars>>

RunRandom(c) ==
    /\ calls[c].st = "running"
    /\ OpOf(calls[c].body) = "generateRandom"
    /\ calls' = [calls EXCEPT ![c].st = "done",
                              ![c].res = RandomResult(calls[c].body, RngOf(c))]
    /\ UNCHANGED <<webVars, elVars, platform, shellVars>>

(***************************************************************************)
(* The documents, schemas and options the requests of the model carry.     *)
(***************************************************************************)
\* the example of section 8
SkelUser ==
    Obj(<< Fld("user", Obj(<< Fld("email", Str("email", 0)), Fld("age", Num(0)) >>)) >>)
\* an array template, a heterogeneous array, empty containers, a null leaf
SkelItems ==
    Obj(<< Fld("items", Arr(<< Obj(<< Fld("name", Str("text", 0)),
                                      Fld("status", Str("text", 1)) >>) >>)),
           Fld("tags", Arr(<< Str("text", 0), Num(1) >>)),
           Fld("empty", Arr(<< >>)),
           Fld("meta", Obj(<< >>)),
           Fld("note", Null) >>)
\* leaves the schema below constrains by enum
SkelEnum ==
    Obj(<< Fld("email", Str("email", 0)),
           Fld("list", Arr(<< Obj(<< Fld("status", Str("text", 0)) >>) >>)) >>)
\* a template at the root
SkelRootArray == Arr(<< Str("email", 0) >>)
\* empty containers ahead of leaves that draw, also inside a template
SkelGaps ==
    Obj(<< Fld("none", Arr(<< >>)),
           Fld("nothing", Obj(<< >>)),
           Fld("email", Str("email", 0)),
           Fld("rows", Arr(<< Obj(<< Fld("gap", Arr(<< >>)),
                                     Fld("id", Num(0)) >>) >>)) >>)
Skeletons == {SkelUser, SkelItems, SkelEnum, SkelRootArray, SkelGaps}

\* enum on `email` (against the key's category) and on `list[*].status`
SchemaEnum ==
    SObj(<< Prop("email", SLeaf("string", "email", << Str("enum", 0), Str("enum", 1) >>)),
            Prop("list", SArr(SObj(<< Prop("status",
                    SLeaf("string", "", << Str("enum", 2), Str("enum", 3), Str("enum", 4) >>)) >>,
                    << "status" >>))),
            Prop("user", SObj(<< Prop("age", SLeaf("integer", "", << >>)) >>, << >>)) >>,
         << "email" >>)

\* leaves under numeric and length bounds: bounds some samples meet, bounds no
\* sample meets (above and below the pool), one-sided bounds
SkelBounded ==
    Obj(<< Fld("age", Num(0)), Fld("score", Num(0)), Fld("floor", Num(0)),
           Fld("code", Str("text", 0)), Fld("blank", Str("text", 0)),
           Fld("rows", Arr(<< Obj(<< Fld("qty", Num(0)) >>) >>)),
           Fld("last", Num(0)) >>)
SchemaBounds ==
    SObj(<< Prop("age", SInteger(Some(1), Some(1))),
            Prop("score", SInteger(Some(PoolSize + 2), Some(PoolSize + 4))),
            Prop("floor", SInteger(None, Some(-1))),
            Prop("code", SString(Some(2), Some(2))),
            Prop("blank", SString(None, Some(0))),
            Prop("rows", SArr(SObj(<< Prop("qty", SInteger(Some(1), None)) >>,
                                   << >>))) >>,
         << >>)

\* the examples of section 8
DocName == Obj(<< Fld("name", Str("name", 0)), Fld("id", Num(7)) >>)
DocEmail ==
    Obj(<< Fld("email", Str("email", 0)), Fld("count", Num(3)),
           Fld("label", Str("text", 1)) >>)
\* key matches and shape matches inside an array, a note, an empty array
DocUsers ==
    Obj(<< Fld("users", Arr(<<
               Obj(<< Fld("phone", Num(1)),
                      Fld("notes", Str("textWithEmail", 0)),
                      Fld("contact", Str("email", 1)) >>),
               Obj(<< Fld("phone", Str("phone", 2)),
                      Fld("notes", Str("text", 0)),
                      Fld("contact", Str("text", 1)) >>) >>)),
           Fld("username", Str("email", 0)),
           Fld("misc", Arr(<< >>)) >>)
Documents == {DocName, DocEmail, DocUsers}

OptOf(S) == {None} \cup {Some(x) : x \in S}
Seeds == {JsNum(n) : n \in 0 .. MaxSeed}
Counts == {JsNum(n) : n \in -1 .. MaxCount} \cup {JsNaN}
Depths == {JsNum(n) : n \in -1 .. MaxDepth}
Fanouts == {JsNum(n) : n \in 1 .. MaxFanout}

GenerateOptions ==
    {[NoOptions EXCEPT !.count = c, !.seed = k] :
        c \in OptOf(Counts), k \in OptOf(Seeds)}
RandomOptions ==
    {[NoOptions EXCEPT !.seed = k, !.depth = d, !.maxKeys = m, !.maxItems = n] :
        k \in OptOf(Seeds), d \in OptOf(Depths), m \in OptOf(Fanouts),
        n \in OptOf(Fanouts)}

\* the requests a single invocation is checked on
\* leaves on which the signals of section 3 disagree: schema format against
\* key name and example, schema type against key name, key name against
\* example, example alone, no signal at all
SkelSignals ==
    Obj(<< Fld("email", Str("phone", 0)), Fld("phone", Str("date", 0)),
           Fld("fullName", Str("text", 0)), Fld("telephone", Str("uuid", 0)),
           Fld("contactEmail", Num(0)), Fld("ref", Str("uuid", 0)),
           Fld("memo", Str("text", 0)) >>)
SchemaSignals ==
    SObj(<< Prop("email", SLeaf("string", "uuid", << >>)),
            Prop("phone", SLeaf("integer", "", << >>)),
            Prop("fullName", SLeaf("string", "date-time", << >>)),
            Prop("telephone", SLeaf("string", "", << >>)) >>,
         << >>)

\* a schema with one fragment at `user`, and the document it constrains
SchemaAround(fragments) ==
    SObj(<< Prop("email", SLeaf("string", "email", << >>)) >> \o fragments
            \o << Prop("list", SArr(SObj(<< Prop("status",
                       SLeaf("string", "", << Str("enum", 0), Str("enum", 1) >>)) >>,
                       << "status" >>))) >>,
         << "email", "user" >>)
SkelAround ==
    Obj(<< Fld("email", Str("text", 0)),
           Fld("user", Obj(<< Fld("id", Num(0)), Fld("age", Num(0)),
                              Fld("next", Obj(<< Fld("id", Num(0)) >>)),
                              Fld("pong", Obj(<< Fld("n", Num(0)),
                                                 Fld("ping", Str("email", 0)) >>)) >>)),
           Fld("list", Arr(<< Obj(<< Fld("status", Str("text", 0)) >>) >>)) >>)
\* what a malformed fragment still carries
Carried(type) ==
    Schema(type, "uuid", << Str("enum", 2) >>,
           << Prop("age", SInteger(Some(1), Some(1))) >>, None, << "age" >>)
\* malformed schemas: the schema, the path of the malformed fragment, and
\* the schema without that fragment
MalformedCases ==
    { [schema  |-> SchemaAround(<< Prop("user", Carried("")) >>),
       at      |-> << "user" >>,
       without |-> SchemaAround(<< >>)],
      [schema  |-> SchemaAround(<< Prop("user", Carried("money")) >>),
       at      |-> << "user" >>,
       without |-> SchemaAround(<< >>)],
      [schema  |-> SchemaAround(<< Prop("user", SRef("Node")) >>),
       at      |-> << "user", "next" >>,
       without |-> SchemaAround(<< Prop("user",
                       SObj(<< Prop("id", SLeaf("integer", "", << >>)) >>,
                            << "id" >>)) >>)],
      [schema  |-> SchemaAround(<< Prop("user", SRef("Ping")) >>),
       at      |-> << "user", "pong", "ping" >>,
       without |-> SchemaAround(<< Prop("user",
                       SObj(<< Prop("pong",
                           SObj(<< Prop("n", SLeaf("integer", "", << >>)) >>,
                                << "ping" >>)) >>, << >>)) >>)] }

\* a skeleton with the schema it is generated under
Constrained ==
    {<<s, w>> : s \in OptOf(Skeletons), w \in {None, Some(SchemaEnum)}}
    \cup {<<Some(SkelBounded), Some(SchemaBounds)>>}
    \cup {<<Some(SkelSignals), w>> : w \in {None, Some(SchemaSignals)}}
    \cup {<<Some(SkelAround), Some(m.schema)>> : m \in MalformedCases}

CoreRequests ==
    {ClientCall("generate", sw[1], sw[2], None, o) :
        sw \in Constrained, o \in GenerateOptions}
    \cup {ClientCall("anonymize", None, None, d, NoOptions) : d \in OptOf(Documents)}
    \cup {ClientCall("analyze", None, None, d, NoOptions) : d \in OptOf(Documents)}
    \cup {ClientCall("randomJson", None, None, None, o) : o \in RandomOptions}

\* the requests two concurrent invocations are checked on
ConcRequests ==
    {ClientCall("generate", Some(s), None, None, [NoOptions EXCEPT !.count = c, !.seed = k]) :
        s \in {SkelUser, SkelRootArray},
        c \in {None, Some(JsNum(-1))},
        k \in OptOf({JsNum(0), JsNum(1)})}
    \cup {ClientCall("anonymize", None, None, Some(DocEmail), NoOptions),
          ClientCall("analyze", None, None, Some(DocName), NoOptions)}
    \cup {ClientCall("randomJson", None, None, None,
                  [NoOptions EXCEPT !.seed = k, !.depth = Some(JsNum(1)),
                                    !.maxKeys = Some(JsNum(2))]) :
            k \in OptOf({JsNum(0), JsNum(1)})}

(***************************************************************************)
(* Web front end: what the views read from their inputs.                   *)
(***************************************************************************)
\* Number(text), for the texts a number input holds in this model
Number(text) ==
    CASE text = ""   -> JsNum(0)
      [] text = "0"  -> JsNum(0)
      [] text = "1"  -> JsNum(1)
      [] text = "2"  -> JsNum(2)
      [] text = "3"  -> JsNum(3)
      [] text = "5"  -> JsNum(5)
      [] text = "-1" -> JsNum(-1)
      [] OTHER       -> JsNaN
\* text.trim()
Trim(text) == IF text = " " THEN "" ELSE text
\* text && text.trim()
HasText(text) == text # "" /\ Trim(text) # ""
\* text && text.trim() ? Number(text) : undefined
NumberIfText(text) == IF HasText(text) THEN Some(Number(text)) ELSE None

TextUser == "{\"user\":{\"email\":\"a@b.c\",\"age\":0}}"
TextRootArray == "[\"a@b.c\"]"
TextBroken == "{\"user\":"
\* JSON.parse(text): the document, or None when it throws
JsonParse(text) ==
    CASE text = TextUser      -> Some(SkelUser)
      [] text = TextRootArray -> Some(SkelRootArray)
      [] OTHER                -> None

\* GenerateView: the options passed to apiClient.generate
GenerateViewOptions(seed, count) ==
    [NoOptions EXCEPT !.seed = NumberIfText(seed), !.count = NumberIfText(count)]

\* x && !isNaN(x) ? x : undefined
SeedIfTruthy(seed) ==
    LET seedNum == NumberIfText(seed)
    IN  IF seedNum # None /\ JsTruthy(Get(seedNum)) THEN seedNum ELSE None

\* faulty variant: any number the input holds is passed on
PositiveOrUnchecked(text, d) ==
    LET n == IF HasText(text) THEN Number(text) ELSE JsNum(d)
    IN  IF ~n.nan THEN n ELSE JsNum(d)

\* RandomJsonView: !isNaN(n) && n > 0 ? n : d
PositiveOr(text, d) ==
    LET n == IF HasText(text) THEN Number(text) ELSE JsNum(d)
    IN  IF ~n.nan /\ n.v > 0 THEN n ELSE JsNum(d)

\* RandomXmlView: !isNaN(n) ? n : d
NumberOr(text, d) ==
    LET n == IF HasText(text) THEN Number(text) ELSE JsNum(d)
    IN  IF ~n.nan THEN n ELSE JsNum(d)

\* RandomJsonView: the options passed to apiClient.generateRandomJson
RandomJsonViewOptions(seed, depth, maxKeys, maxItems) ==
    [NoOptions EXCEPT !.seed = SeedIfTruthy(seed),
                      !.depth = Some(PositiveOr(depth, DefaultDepth)),
                      !.maxKeys = Some(PositiveOr(maxKeys, DefaultMaxKeys)),
                      !.maxItems = Some(PositiveOr(maxItems, DefaultMaxItems))]

\* RandomXmlView: the options passed to apiClient.generateRandomXml
RandomXmlViewOptions(seed, depth, maxChildren, maxItems) ==
    [NoOptions EXCEPT !.seed = SeedIfTruthy(seed),
                      !.depth = Some(NumberOr(depth, DefaultDepth)),
                      !.maxKeys = Some(NumberOr(maxChildren, DefaultMaxKeys)),
                      !.maxItems = Some(NumberOr(maxItems, DefaultMaxItems))]

(***************************************************************************)
(* Web front end: HTTP responses and APIClient.request.                    *)
(***************************************************************************)
\* a parsed JSON body: `success` is "true", "false" or "undefined"; `error`
\* is absent (None) or a string, possibly empty; a body that is not an
\* object (null) has kind "null"
JsonBody(kind, success, error, data) ==
    [kind |-> kind, success |-> success, error |-> error, data |-> data]
NoJson == JsonBody("", "undefined", None, None)

\* a response: how fetch ended ("ok", or the error it threw), the status,
\* the raw text when it is not JSON ("json" otherwise) and the parsed body
Http(status, raw, obj) == [net |-> "ok", status |-> status, raw |-> raw, obj |-> obj]
FetchThrew(name) == [net |-> name, status |-> 0, raw |-> "", obj |-> NoJson]
NoResponse == FetchThrew("")

\* response.ok
ResponseOk(resp) == resp.status >= 200 /\ resp.status <= 299
\* JSON.parse(text): the body, or None when it throws
ParseBody(resp) ==
    IF resp.raw = "json" THEN Some(resp.obj)
    ELSE IF resp.raw = "null" THEN Some(JsonBody("null", "undefined", None, None))
    ELSE None

Error(name, message, status) == [name |-> name, message |-> message, status |-> status]
APIError(message, status) == Error("APIError", message, status)
NoError == Error("", "", 0)

Returned(data) == [kind |-> "resolved", data |-> data, err |-> NoError]
Threw(err) == [kind |-> "rejected", data |-> NoJson, err |-> err]

\* the `try` block of APIClient.request: the value returned or the error thrown
RequestTry(resp) ==
    IF resp.net = "TypeError" THEN Threw(Error("TypeError", "Failed to fetch", 0))
    ELSE IF resp.net # "ok" THEN Threw(Error(resp.net, "The operation was aborted", 0))
    ELSE IF resp.status = 404 THEN Threw(APIError("Endpoint not found", 404))
    ELSE IF resp.status \in {502, 503, 504}
    THEN Threw(APIError("Service unavailable", resp.status))
    ELSE IF resp.status = 500 THEN Threw(APIError("Internal server error", 500))
    ELSE IF Trim(resp.raw) = ""
    THEN Threw(APIError("Empty response from server", resp.status))
    ELSE IF ParseBody(resp) = None
    THEN Threw(APIError("Invalid JSON response from server", resp.status))
    ELSE LET data == Get(ParseBody(resp))
         IN  IF ~ResponseOk(resp)
             THEN Threw(APIError(IF data.error # None /\ Get(data.error) # ""
                                 THEN Get(data.error) ELSE "HTTP error",
                                 resp.status))
             \* data.success on null throws a TypeError
             ELSE IF data.kind = "null"
             THEN Threw(Error("TypeError", "Cannot read properties of null", 0))
             ELSE IF data.success = "false"
                     \/ (data.success = "undefined"
                         /\ data.error # None /\ Get(data.error) # "")
             THEN Threw(APIError(IF data.error # None /\ Get(data.error) # ""
                                 THEN Get(data.error) ELSE "Operation failed",
                                 resp.status))
             ELSE Returned(data)

\* faulty variant: an error that is not an APIError is thrown on as it is
requestRethrowing(resp) == RequestTry(resp)

\* APIClient.request: the `try` block, then the `catch` block
request(resp) ==
    LET r == RequestTry(resp)
    IN  IF r.kind = "resolved" \/ r.err.name = "APIError" THEN r
        ELSE IF r.err.name = "TypeError" /\ r.err.message = "Failed to fetch"
        THEN Threw(APIError("Network error: Unable to connect to the server", 0))
        ELSE Threw(APIError(r.err.message, 500))

(***************************************************************************)
(* Web front end: the views (one is mounted at a time, src/unnamed/part_012) *)
(* and the exchange their request is in.                                   *)
(***************************************************************************)
Views == {"generate", "randomJson", "randomXml"}

\* the state a view is mounted with. `toast` and `ran` are what the step just
\* taken put out: the toast it showed, and how a part of handleGenerate ended
\* ("returned", "threw", "awaiting", "shown", "caught"); every other step
\* leaves them empty
Mounted(view) ==
    [view |-> view, skeleton |-> "", seed |-> "", count |-> "",
     depth |-> "3", maxKeys |-> "5", maxItems |-> "5",
     loading |-> FALSE, lastError |-> None, generated |-> None,
     toast |-> None, ran |-> ""]
Quiet(w) == [w EXCEPT !.toast = None, !.ran = ""]

Toast(variant, description) == [variant |-> variant, description |-> description]

\* the count and depth texts the handler read when it was invoked (a view
\* without the input read none)
AskedOf(w) ==
    [count |-> IF w.view = "generate" THEN w.count ELSE "",
     depth |-> IF w.view = "generate" THEN "" ELSE w.depth]

\* the exchange of the request in flight: the view that sent it, what its
\* handler read and the lastError it closed over, the body, what the backend
\* did for it ("done", "failed", or nothing), the response, and what
\* APIClient.request made of it
NoExchange ==
    [st |-> "none", view |-> "", asked |-> [count |-> "", depth |-> ""],
     lastError |-> None, body |-> EmptyBody, served |-> "", resp |-> NoResponse,
     result |-> Threw(NoError)]
Sent(w, req) ==
    [NoExchange EXCEPT !.st = "sent", !.view = w.view, !.asked = AskedOf(w),
                       !.lastError = w.lastError, !.body = ApiCall(req)]

\* App.setCurrentView and the inputs' onChange handlers; in this model the
\* user changes the view and edits the inputs between requests, not while
\* one is in flight
SetCurrentView(view) ==
    /\ platform = "web"
    /\ wire.st = "none"
    /\ web.view # view
    /\ web' = Mounted(view)
    /\ UNCHANGED <<wire, calls, elVars, platform, shellVars>>

SetSkeleton(text) ==
    /\ platform = "web"
    /\ web.view = "generate"
    /\ wire.st = "none"
    /\ web' = [Quiet(web) EXCEPT !.skeleton = text]
    /\ UNCHANGED <<wire, calls, elVars, platform, shellVars>>
SetSeed(text) ==
    /\ platform = "web"
    /\ wire.st = "none"
    /\ web' = [Quiet(web) EXCEPT !.seed = text]
    /\ UNCHANGED <<wire, calls, elVars, platform, shellVars>>
SetCount(text) ==
    /\ platform = "web"
    /\ web.view = "generate"
    /\ wire.st = "none"
    /\ web' = [Quiet(web) EXCEPT !.count = text]
    /\ UNCHANGED <<wire, calls, elVars, platform, shellVars>>
SetDepth(text) ==
    /\ platform = "web"
    /\ web.view \in {"randomJson", "randomXml"}
    /\ wire.st = "none"
    /\ web' = [Quiet(web) EXCEPT !.depth = text]
    /\ UNCHANGED <<wire, calls, elVars, platform, shellVars>>
\* setMaxKeys in RandomJsonView, setMaxChildren in RandomXmlView
SetMaxKeys(text) ==
    /\ platform = "web"
    /\ web.view \in {"randomJson", "randomXml"}
    /\ wire.st = "none"
    /\ web' = [Quiet(web) EXCEPT !.maxKeys = text]
    /\ UNCHANGED <<wire, calls, elVars, platform, shellVars>>
SetMaxItems(text) ==
    /\ platform = "web"
    /\ web.view \in {"randomJson", "randomXml"}
    /\ wire.st = "none"
    /\ web' = [Quiet(web) EXCEPT !.maxItems = text]
    /\ UNCHANGED <<wire, calls, elVars, platform, shellVars>>

\* the catch block of the handlers of GenerateView and RandomJsonView: the
\* toast is shown unless the message equals the lastError the handler closed
\* over; `w` is the state the try block left
Caught(w, message, closedOver) ==
    IF Some(message) # closedOver
    THEN [w EXCEPT !.lastError = Some(message),
                   !.toast = Some(Toast("destructive", message)),
                   !.loading = FALSE]
    ELSE [w EXCEPT !.toast = None, !.loading = FALSE]

\* the request leaves: the exchange is open and the backend has the body
StartRequest(req, how) ==
    /\ web' = [web EXCEPT !.loading = TRUE, !.toast = None,
                          !.lastError = IF web.view = "randomXml" THEN web.lastError
                                        ELSE None,
                          !.ran = how]
    /\ wire' = Sent(web, req)
    /\ calls' = [calls EXCEPT ![1] = Received(req)]

\* GenerateView.handleGenerate up to its first await; the button is
\* disabled while the skeleton is blank or a request is loading
GenerateViewHandleGenerate ==
    /\ platform = "web"
    /\ web.view = "generate"
    /\ ~(Trim(web.skeleton) = "" \/ web.loading)
    /\ IF Trim(web.skeleton) = "" \/ web.loading
       THEN /\ web' = [web EXCEPT !.toast = None, !.ran = "returned"]
            /\ UNCHANGED <<wire, calls>>
       ELSE IF JsonParse(web.skeleton) = None
       THEN /\ web' = Caught([web EXCEPT !.lastError = None, !.ran = "threw"],
                             "Invalid JSON format", web.lastError)
            /\ UNCHANGED <<wire, calls>>
       ELSE StartRequest(ClientCall("generate", JsonParse(web.skeleton), None, None,
                                    GenerateViewOptions(web.seed, web.count)),
                         "awaiting")
    /\ UNCHANGED <<elVars, platform, shellVars>>

\* RandomJsonView.handleGenerate up to its first await
RandomJsonViewHandleGenerate ==
    /\ platform = "web"
    /\ web.view = "randomJson"
    /\ ~web.loading
    /\ StartRequest(ClientCall("randomJson", None, None, None,
                               RandomJsonViewOptions(web.seed, web.depth,
                                                     web.maxKeys, web.maxItems)),
                    "awaiting")
    /\ UNCHANGED <<elVars, platform, shellVars>>

\* RandomXmlView.handleGenerate up to its first await
RandomXmlViewHandleGenerate ==
    /\ platform = "web"
    /\ web.view = "randomXml"
    /\ ~web.loading
    /\ StartRequest(ClientCall("randomXml", None, None, None,
                               RandomXmlViewOptions(web.seed, web.depth,
                                                    web.maxKeys, web.maxItems)),
                    "awaiting")
    /\ UNCHANGED <<elVars, platform, shellVars>>

\* the response of the backend to a request it has handled
BackendResponse(res) ==
    IF res.success
    THEN Http(200, "json", JsonBody("object", "true", None, res.data))
    ELSE Http(400, "json", JsonBody("object", "false", Some(res.error), None))

\* the backend answers the request it has handled; the invocation is over
Respond ==
    /\ platform = "web"
    /\ wire.st = "sent"
    /\ calls[1].st \in {"done", "failed"}
    /\ wire' = [wire EXCEPT !.st = "responded", !.served = calls[1].st,
                            !.resp = BackendResponse(calls[1].res)]
    /\ calls' = [calls EXCEPT ![1] = IdleCall]
    /\ web' = Quiet(web)
    /\ UNCHANGED <<elVars, platform, shellVars>>

\* the request fails on its way, before the backend handles it
Fault(resp) ==
    /\ platform = "web"
    /\ wire.st = "sent"
    /\ calls[1].st = "received"
    /\ wire' = [wire EXCEPT !.st = "responded", !.resp = resp]
    /\ calls' = [calls EXCEPT ![1] = IdleCall]
    /\ web' = Quiet(web)
    /\ UNCHANGED <<elVars, platform, shellVars>>

\* the promise of APIClient.request settles
RequestSettles ==
    /\ platform = "web"
    /\ wire.st = "responded"
    /\ wire' = [wire EXCEPT !.st = request(wire.resp).kind,
                            !.result = request(wire.resp)]
    /\ web' = Quiet(web)
    /\ UNCHANGED <<calls, elVars, platform, shellVars>>

\* the rest of handleGenerate: the handler shows the document or the error
HandleGenerateResumes ==
    /\ platform = "web"
    /\ wire.st \in {"resolved", "rejected"}
    /\ LET r == wire.result
           ok == r.kind = "resolved" /\ r.data.success = "true" /\ r.data.data # None
           message == IF r.kind = "rejected" THEN r.err.message
                      ELSE IF r.data.error # None /\ Get(r.data.error) # ""
                      THEN Get(r.data.error) ELSE "Generation failed"
       IN  web' =
             IF ok
             THEN [web EXCEPT !.generated = r.data.data,
                              !.lastError = IF web.view = "randomXml"
                                            THEN web.lastError ELSE None,
                              !.toast = Some(Toast("success", "")),
                              !.loading = FALSE,
                              !.ran = "shown"]
             ELSE IF web.view = "randomXml"
             THEN [web EXCEPT !.toast = Some(Toast("destructive", message)),
                              !.loading = FALSE,
                              !.ran = "caught"]
             ELSE Caught([web EXCEPT !.ran = "caught"], message, wire.lastError)
    /\ wire' = NoExchange
    /\ UNCHANGED <<calls, elVars, platform, shellVars>>

(***************************************************************************)
(* Electron main process (src/electron/main.js): the content-mode ipc       *)
(* handlers, the temporary files and the spawned backend processes.        *)
(***************************************************************************)
\* the handler invocations that may be in progress at once
Ipcs == {1, 2}
Channels ==
    {"generate-data", "analyze-data", "anonymize-data", "generate-json-from-content"}
\* the deployments of the Electron app: packaged; unpackaged with the Python
\* script present; unpackaged without it
ElectronPlatforms == {"electron", "electronDev", "electronDevNoScript"}

\* path.join(os.tmpdir(), `skeleton_${Date.now()}.json`) or `data_...`
TempFile(channel, now) ==
    <<IF channel \in {"generate-data", "generate-json-from-content"}
      THEN "skeleton" ELSE "data", now>>
FileNames == {"skeleton", "data"} \X (0 .. MaxClock)

\* ElectronGenerateView: seed ? Number(seed) : undefined
SeedIfAnyText(text) == IF text # "" THEN Some(Number(text)) ELSE None
\* main.js: if (seed) args.push('--seed', String(seed))
SeedArg(seed) == IfTruthyNum(seed)

\* one handler invocation: where it is, its arguments, its tempFile, whether
\* it has written it, whether an unlink of the `finally` block is under way,
\* how its promise settled and with what, and what it will settle with
\* once the close handler has cleaned up
IdleIpc ==
    [st |-> "idle", channel |-> "", content |-> "", seed |-> None,
     tempFile |-> None,
     wrote |-> FALSE, unlinking |-> FALSE, outcome |-> "", value |-> "",
     pending |-> ""]
\* a backend process: its --seed argument, and what it read from its file
NoProc == [st |-> "none", seed |-> None, read |-> None]

Exists(name) == files[name] # None
\* the promise settles: "success" resolves, everything else rejects
SettledWith(e, value) ==
    [e EXCEPT !.st = "settled",
              !.outcome = IF value = "success" THEN "resolved" ELSE "rejected",
              !.value = value]
\* the handlers that clean up in their close and error handlers
CleansOnClose(channel) == channel # "generate-json-from-content"

\* Date.now() moves on
Tick ==
    /\ platform \in ElectronPlatforms
    /\ clock < MaxClock
    /\ clock' = clock + 1
    /\ UNCHANGED <<el, files, procs, calls, webVars, platform, shellVars>>

\* faulty variant: the content is written without being parsed first
InvokeUnparsed(i, channel, content, seed) ==
    /\ platform \in ElectronPlatforms
    /\ el[i].st = "idle"
    /\ el' = [el EXCEPT ![i] = [IdleIpc EXCEPT !.st = "writing", !.channel = channel,
                                               !.content = content,
                                               !.seed = seed,
                                               !.tempFile = Some(TempFile(channel, clock))]]
    /\ UNCHANGED <<files, procs, clock, calls, webVars, platform, shellVars>>

\* ipcMain.handle(channel) in content mode, up to `await fs.writeFile`; the
\* seed is the one the renderer passes to 'generate-data'
Invoke(i, channel, content, seed) ==
    /\ platform \in ElectronPlatforms
    /\ el[i].st = "idle"
    /\ LET name == TempFile(channel, clock)
           e == [IdleIpc EXCEPT !.channel = channel, !.content = content,
                                !.seed = seed]
       IN  el' = [el EXCEPT ![i] =
                IF CleansOnClose(channel) /\ content = ""
                THEN [e EXCEPT !.st = "settled", !.outcome = "resolved",
                               !.value = "No data provided"]
                ELSE IF JsonParse(content) = None
                THEN [SettledWith(e, "SyntaxError") EXCEPT
                          !.tempFile = Some(name),
                          !.unlinking = ~CleansOnClose(channel) /\ Exists(name)]
                ELSE [e EXCEPT !.st = "writing", !.tempFile = Some(name)]]
    /\ UNCHANGED <<files, procs, clock, calls, webVars, platform, shellVars>>

\* fs.writeFile completes; the handler builds the command and spawns the
\* backend, or rejects when the script is missing; the `finally` block of
\* 'generate-json-from-content' starts its unlink
WriteDone(i) ==
    /\ platform \in ElectronPlatforms
    /\ el[i].st = "writing"
    /\ files' = [files EXCEPT ![Get(el[i].tempFile)] = Some(el[i].content)]
    /\ LET e == [el[i] EXCEPT !.wrote = TRUE,
                              !.unlinking = ~CleansOnClose(el[i].channel)]
       IN  IF platform = "electronDevNoScript"
           THEN /\ el' = [el EXCEPT ![i] = SettledWith(e, "Python script not found")]
                /\ procs' = procs
           ELSE /\ el' = [el EXCEPT ![i] = [e EXCEPT !.st = "running"]]
                /\ procs' = [procs EXCEPT ![i] = [st |-> "running",
                                                  seed |-> SeedArg(el[i].seed),
                                                  read |-> None]]
    /\ UNCHANGED <<clock, calls, webVars, platform, shellVars>>

\* the unlink of the `finally` block completes
FinallyUnlink(i) ==
    /\ platform \in ElectronPlatforms
    /\ el[i].unlinking
    /\ files' = [files EXCEPT ![Get(el[i].tempFile)] = None]
    /\ el' = [el EXCEPT ![i].unlinking = FALSE]
    /\ UNCHANGED <<procs, clock, calls, webVars, platform, shellVars>>

\* the backend process opens the file it was given
ProcRead(i) ==
    /\ platform \in ElectronPlatforms
    /\ procs[i].st = "running"
    /\ procs[i].read = None
    /\ procs' = [procs EXCEPT ![i].read =
                    IF Exists(Get(el[i].tempFile))
                    THEN files[Get(el[i].tempFile)] ELSE Some("<missing>")]
    /\ UNCHANGED <<el, files, clock, calls, webVars, platform, shellVars>>

\* the process has ended (`how` is "success", "Invalid JSON output",
\* "Process exited with code 1") or could not be started ("spawn error"): the
\* close or error handler starts its cleanup, or settles the promise
ProcEnds(i, how) ==
    /\ platform \in ElectronPlatforms
    /\ el[i].st = "running"
    /\ procs[i].st = "running"
    /\ how = "spawn error" => procs[i].read = None
    /\ procs' = [procs EXCEPT ![i].st = "closed"]
    /\ el' = [el EXCEPT ![i] =
                IF CleansOnClose(el[i].channel) /\ Exists(Get(el[i].tempFile))
                THEN [el[i] EXCEPT !.st = "closing", !.pending = how]
                ELSE SettledWith(el[i], how)]
    /\ UNCHANGED <<files, clock, calls, webVars, platform, shellVars>>

\* the unlink of the close or error handler completes; the promise settles
UnlinkDone(i) ==
    /\ platform \in ElectronPlatforms
    /\ el[i].st = "closing"
    /\ files' = [files EXCEPT ![Get(el[i].tempFile)] = None]
    /\ el' = [el EXCEPT ![i] = [SettledWith(el[i], el[i].pending) EXCEPT !.pending = ""]]
    /\ UNCHANGED <<procs, clock, calls, webVars, platform, shellVars>>

(***************************************************************************)
(* FileUpload (src/unnamed/part_009): validation of the size of an         *)
(* imported file, and the drop zone.                                       *)
(***************************************************************************)
\* maxSize = 10, in MB
DefaultMaxSize == 10
\* the maxSize props the component is mounted with
MaxSizes == {1, DefaultMaxSize}
BytesPerMB == 1024 * 1024
\* the sizes, in bytes, of the files the user picks or drops
FileSizes ==
    {0} \cup UNION {{m * BytesPerMB - 1, m * BytesPerMB, m * BytesPerMB + 1} :
                       m \in MaxSizes}

\* faulty variant: the size is compared in whole megabytes
ExceedsLimitInWholeMB(size, maxSize) == size \div BytesPerMB > maxSize

\* validateFile: file.size / (1024 * 1024) > maxSize
ExceedsLimit(size, maxSize) == size > maxSize * BytesPerMB

\* the component: its props, its state, the sizes of the files it has
\* passed to onFileSelect and how many of those calls are still pending;
\* `last` is the handler that just ran and the file it was given
NoFileEvent == [handler |-> "", size |-> 0]
FileEvent(handler, size) == [handler |-> handler, size |-> size]
UploadMounted(maxSize) ==
    [maxSize |-> maxSize, disabled |-> FALSE, isDragging |-> FALSE,
     error |-> None, passed |-> << >>, pending |-> 0, last |-> NoFileEvent]

\* handleFile up to `await onFileSelect(file)`
HandleFile(u, size) ==
    IF ExceedsLimit(size, u.maxSize)
    THEN [u EXCEPT !.error = Some("File size exceeds limit")]
    ELSE [u EXCEPT !.error = None,
                   !.passed = Append(u.passed, size),
                   !.pending = u.pending + 1]

\* the parent renders the component with another `disabled`
SetDisabled(b) ==
    /\ upload.disabled # b
    /\ upload' = [upload EXCEPT !.disabled = b, !.last = NoFileEvent]
    /\ UNCHANGED <<calls, webVars, elVars, platform, updater, xmlPath, genView, roundTrip>>

HandleDragOver ==
    /\ upload' = [upload EXCEPT !.isDragging = IF upload.disabled THEN @ ELSE TRUE,
                                !.last = NoFileEvent]
    /\ UNCHANGED <<calls, webVars, elVars, platform, updater, xmlPath, genView, roundTrip>>

HandleDragLeave ==
    /\ upload' = [upload EXCEPT !.isDragging = FALSE, !.last = NoFileEvent]
    /\ UNCHANGED <<calls, webVars, elVars, platform, updater, xmlPath, genView, roundTrip>>

\* handleDrop: a file is dropped on the zone
HandleDrop(size) ==
    /\ Len(upload.passed) < MaxFiles
    /\ LET u == [upload EXCEPT !.isDragging = FALSE,
                               !.last = FileEvent("handleDrop", size)]
       IN  upload' = IF upload.disabled THEN u ELSE HandleFile(u, size)
    /\ UNCHANGED <<calls, webVars, elVars, platform, updater, xmlPath, genView, roundTrip>>

\* handleFileInput: a file is picked in the dialog (the input is disabled
\* with the component)
HandleFileInput(size) ==
    /\ ~upload.disabled
    /\ Len(upload.passed) < MaxFiles
    /\ upload' = HandleFile([upload EXCEPT !.last = FileEvent("handleFileInput", size)],
                            size)
    /\ UNCHANGED <<calls, webVars, elVars, platform, updater, xmlPath, genView, roundTrip>>

\* the promise of onFileSelect settles; handleFile's catch sets the error
OnFileSelectSettles(threw) ==
    /\ upload.pending > 0
    /\ upload' = [upload EXCEPT !.pending = @ - 1,
                                !.error = IF threw THEN Some("Failed to process file")
                                          ELSE @,
                                !.last = NoFileEvent]
    /\ UNCHANGED <<calls, webVars, elVars, platform, updater, xmlPath, genView, roundTrip>>

(***************************************************************************)
(* Electron main process: update gating (src/electron/main.js 6-14, 73-95, *)
(* 703-729) and UpdateManager (src/electron/updater.js).                   *)
(***************************************************************************)
\* app.isPackaged
IsPackaged == platform = "electron"
\* the values of process.env.DISABLE_UPDATES
DisableUpdatesValues == {"unset", "true", "false"}

\* faulty variant: DISABLE_UPDATES is not consulted
UpdatesEnabledWhenPackaged(env) == IsPackaged

\* updatesEnabled
UpdatesEnabled(env) == IsPackaged /\ env # "true"

\* a call UpdateManager made to autoUpdater: who asked for it ("manual",
\* "auto") and how far it is. autoUpdater emits 'checking-for-update' from
\* within the call ("checking"), unless one of its checks is under way, in
\* which case the call gets the promise of that check and causes no event
\* of its own ("joined"); with autoDownload the download starts at
\* 'update-available' ("downloading"); then "ended"
Check(origin, stage) == [origin |-> origin, stage |-> stage]

\* the main process at start: the environment, whether ./updater was
\* required, the window ("created", then "shown"), updateManager and its
\* fields, the start-up timer, the checks autoUpdater was given; `sent` is
\* the update-status the step just taken sent to the window, `ran` the
\* ipc handler that just ran, `event` the autoUpdater event the step
\* handled (of which check, and which) and `dialog` whether its handler
\* showed a dialog
MainStarted(env) ==
    [env |-> env, loaded |-> UpdatesEnabled(env), window |-> "created",
     manager |-> FALSE, isCheckingForUpdates |-> FALSE, isManualCheck |-> FALSE,
     timer |-> "none", checks |-> << >>, sent |-> None, ran |-> "",
     event |-> None, dialog |-> FALSE]
Silent(u) == [u EXCEPT !.sent = None, !.ran = "", !.event = None, !.dialog = FALSE]
UpdaterEvent(k, name) == [check |-> k, name |-> name]

\* mainWindow.once('ready-to-show')
ReadyToShow ==
    /\ platform \in ElectronPlatforms
    /\ updater.window = "created"
    /\ updater' = IF UpdatesEnabled(updater.env)
                  THEN [Silent(updater) EXCEPT !.window = "shown", !.manager = TRUE,
                                               !.timer = "armed"]
                  ELSE [Silent(updater) EXCEPT !.window = "shown"]
    /\ UNCHANGED <<calls, webVars, elVars, platform, upload, xmlPath, genView, roundTrip>>

\* autoUpdater has a check under way (its checkForUpdatesPromise is set)
LibraryBusy(u) == \E k \in DOMAIN u.checks : u.checks[k].stage = "checking"

\* UpdateManager.checkForUpdates (manual) and checkForUpdatesAndNotify (auto)
\* up to their await, with the 'checking-for-update' handler the call runs
ManagerCheck(u, origin) ==
    IF u.isCheckingForUpdates THEN u
    ELSE LET m == [u EXCEPT !.isManualCheck = (origin = "manual")]
         IN  IF LibraryBusy(u)
             THEN [m EXCEPT !.checks = Append(u.checks, Check(origin, "joined"))]
             ELSE [m EXCEPT !.checks = Append(u.checks, Check(origin, "checking")),
                            !.isCheckingForUpdates = TRUE,
                            !.sent = Some("checking")]

\* the timer set at ready-to-show fires
StartupTimer ==
    /\ platform \in ElectronPlatforms
    /\ updater.timer = "armed"
    /\ Len(updater.checks) < MaxChecks
    /\ updater' = IF updater.manager
                  THEN ManagerCheck([Silent(updater) EXCEPT !.timer = "fired"], "auto")
                  ELSE [Silent(updater) EXCEPT !.timer = "fired"]
    /\ UNCHANGED <<calls, webVars, elVars, platform, upload, xmlPath, genView, roundTrip>>

\* ipcMain.handle('check-for-updates')
IpcCheckForUpdates ==
    /\ platform \in ElectronPlatforms
    /\ Len(updater.checks) < MaxChecks
    /\ LET u == [Silent(updater) EXCEPT !.ran = "check-for-updates"]
       IN  updater' =
             IF updater.manager THEN ManagerCheck(u, "manual")
             ELSE IF ~IsPackaged THEN [u EXCEPT !.sent = Some("not-available")]
             ELSE [u EXCEPT !.sent = Some("error")]
    /\ UNCHANGED <<calls, webVars, elVars, platform, upload, xmlPath, genView, roundTrip>>

\* ipcMain.handle('check-for-updates-and-notify')
IpcCheckForUpdatesAndNotify ==
    /\ platform \in ElectronPlatforms
    /\ Len(updater.checks) < MaxChecks
    /\ LET u == [Silent(updater) EXCEPT !.ran = "check-for-updates-and-notify"]
       IN  updater' = IF updater.manager THEN ManagerCheck(u, "auto") ELSE u
    /\ UNCHANGED <<calls, webVars, elVars, platform, upload, xmlPath, genView, roundTrip>>

\* the update-status a handler sends for an event
StatusOf(event) ==
    CASE event = "update-available"     -> "available"
      [] event = "update-not-available" -> "not-available"
      [] event = "update-downloaded"    -> "downloaded"
      [] OTHER                          -> "error"

\* the handlers of 'update-available', 'update-not-available', 'error' and
\* 'update-downloaded': the status goes to the window, and the dialog is
\* shown if isManualCheck; all but 'update-downloaded' reset
\* isCheckingForUpdates. The catch blocks of the calls a failed check
\* rejects do the same as the 'error' handler.
Handled(u, k, event) ==
    [Silent(u) EXCEPT
        !.isCheckingForUpdates = IF event = "update-downloaded" THEN @ ELSE FALSE,
        !.sent = Some(StatusOf(event)),
        !.event = Some(UpdaterEvent(k, event)),
        !.dialog = u.isManualCheck]

\* autoUpdater emits 'update-available', 'update-not-available' or 'error'
\* for the check under way; the calls that joined it settle with it
CheckEnds(k, event) ==
    /\ platform \in ElectronPlatforms
    /\ k \in DOMAIN updater.checks
    /\ updater.checks[k].stage = "checking"
    /\ updater' =
          [Handled(updater, k, event) EXCEPT
              !.checks = [j \in DOMAIN updater.checks |->
                  IF j = k
                  THEN Check(updater.checks[j].origin,
                             IF event = "update-available" THEN "downloading"
                             ELSE "ended")
                  ELSE IF updater.checks[j].stage = "joined"
                  THEN Check(updater.checks[j].origin, "ended")
                  ELSE updater.checks[j]]]
    /\ UNCHANGED <<calls, webVars, elVars, platform, upload, xmlPath, genView, roundTrip>>

\* the download a check started ends: autoUpdater emits 'update-downloaded',
\* or 'error' when the download failed
DownloadEnds(k, event) ==
    /\ platform \in ElectronPlatforms
    /\ k \in DOMAIN updater.checks
    /\ updater.checks[k].stage = "downloading"
    /\ updater' = [Handled(updater, k, event) EXCEPT !.checks[k].stage = "ended"]
    /\ UNCHANGED <<calls, webVars, elVars, platform, upload, xmlPath, genView, roundTrip>>

(***************************************************************************)
(* XmlPathView (src/unnamed/part_005): the debounced evaluation of an      *)
(* XPath expression and the responses of its requests.                     *)
(***************************************************************************)
\* the texts of the two inputs; '//' is the initial expression
XmlTexts == {"", " ", "<a/>", "<b/>"}
XpathTexts == {"", "//", "//a"}
\* !xmlInput.trim() || !xpathExpr.trim()
EitherBlank(xml, xpath) == Trim(xml) = "" \/ Trim(xpath) = ""
\* the (xmlInput, xpathExpr) pair a render has
Pair(xml, xpath) == [xml |-> xml, xpath |-> xpath]
\* a request of apiClient.evaluateXmlPath: its pair and "pending", "ok" or
\* "failed"
XPathRequest(pair) == [pair |-> pair, outcome |-> "pending"]

\* the component: its state, the pair the pending debounce timer will
\* evaluate, and the requests it has made, oldest first; result and error
\* name the pair whose response set them
XmlPathMounted ==
    [xmlInput |-> "", xpathExpr |-> "//", result |-> None, error |-> None,
     resultCount |-> 0, loading |-> FALSE, timer |-> None, requests |-> << >>]

\* useEffect on [xmlInput, xpathExpr]: the cleanup of the previous run
\* clears its timer; blank inputs reset the result, others arm the timer
InputsEffect(x) ==
    IF EitherBlank(x.xmlInput, x.xpathExpr)
    THEN [x EXCEPT !.timer = None, !.result = None, !.error = None,
                   !.resultCount = 0]
    ELSE [x EXCEPT !.timer = Some(Pair(x.xmlInput, x.xpathExpr))]

\* evaluatePath of the render that has `pair`, up to its await
EvaluatePath(x, pair) ==
    IF EitherBlank(pair.xml, pair.xpath)
    THEN [x EXCEPT !.result = None, !.error = None]
    ELSE [x EXCEPT !.loading = TRUE, !.error = None,
                   !.requests = Append(x.requests, XPathRequest(pair))]

\* the user edits the XML (or a file was read into it)
SetXmlInput(text) ==
    /\ text # xmlPath.xmlInput
    /\ xmlPath' = InputsEffect([xmlPath EXCEPT !.xmlInput = text])
    /\ UNCHANGED <<calls, webVars, elVars, platform, upload, updater, genView, roundTrip>>

\* the user edits the expression
SetXpathExpr(text) ==
    /\ text # xmlPath.xpathExpr
    /\ xmlPath' = InputsEffect([xmlPath EXCEPT !.xpathExpr = text])
    /\ UNCHANGED <<calls, webVars, elVars, platform, upload, updater, genView, roundTrip>>

\* the Clear button
ClearXmlPath ==
    /\ LET x == [xmlPath EXCEPT !.xmlInput = "", !.xpathExpr = "//",
                                !.result = None, !.error = None]
       IN  xmlPath' = IF xmlPath.xmlInput = "" /\ xmlPath.xpathExpr = "//"
                      THEN x ELSE InputsEffect(x)
    /\ UNCHANGED <<calls, webVars, elVars, platform, upload, updater, genView, roundTrip>>

\* the debounce timer fires, 500 ms after the inputs last changed
DebounceFires ==
    /\ IsSome(xmlPath.timer)
    /\ Len(xmlPath.requests) < MaxXPathRequests
    /\ xmlPath' = EvaluatePath([xmlPath EXCEPT !.timer = None], Get(xmlPath.timer))
    /\ UNCHANGED <<calls, webVars, elVars, platform, upload, updater, genView, roundTrip>>

\* the Evaluate button, disabled while an input is blank or loading is set
ClickEvaluate ==
    /\ ~(EitherBlank(xmlPath.xmlInput, xmlPath.xpathExpr) \/ xmlPath.loading)
    /\ Len(xmlPath.requests) < MaxXPathRequests
    /\ xmlPath' = EvaluatePath(xmlPath, Pair(xmlPath.xmlInput, xmlPath.xpathExpr))
    /\ UNCHANGED <<calls, webVars, elVars, platform, upload, updater, genView, roundTrip>>

\* the response of request r arrives (ok), or the request fails: the rest
\* of evaluatePath
XPathSettles(r, ok) ==
    /\ r \in DOMAIN xmlPath.requests
    /\ xmlPath.requests[r].outcome = "pending"
    /\ xmlPath' =
          IF ok
          THEN [xmlPath EXCEPT !.requests[r].outcome = "ok",
                               !.result = Some(xmlPath.requests[r].pair),
                               !.resultCount = 1,
                               !.loading = FALSE]
          ELSE [xmlPath EXCEPT !.requests[r].outcome = "failed",
                               !.result = None,
                               !.error = Some(xmlPath.requests[r].pair),
                               !.loading = FALSE]
    /\ UNCHANGED <<calls, webVars, elVars, platform, upload, updater, genView, roundTrip>>

(***************************************************************************)
(* GenerateView (src/src/components/views/generate-view.tsx 13-132): its   *)
(* two handlers, running side by side.                                     *)
(***************************************************************************)
\* a handler that passed its guard: which one, the lastError it closed
\* over, and where it is ("reading" the file, "requesting", "ended")
Handler(kind, closedOver, stage) ==
    [kind |-> kind, closedOver |-> closedOver, stage |-> stage]

\* the view: its state, the toast the step just taken showed, and the
\* handlers that passed their guard, oldest first
GenerateViewMounted ==
    [skeleton |-> "", loading |-> FALSE, lastError |-> None, generated |-> None,
     toast |-> None, handlers |-> << >>]
\* what a file holds, or None when it cannot be read
FileContents == {None, Some(TextBroken), Some(TextUser)}
\* the messages a failed request is caught with
RequestErrors == {"Generation failed", "Failed to fetch"}

\* the textarea's onChange
GenViewSetSkeleton(text) ==
    /\ text # genView.skeleton
    /\ genView' = [genView EXCEPT !.skeleton = text, !.toast = None]
    /\ UNCHANGED <<calls, webVars, elVars, platform, upload, updater, xmlPath, roundTrip>>

\* faulty variant: the handler does not look at loading
GenViewHandleFileSelectUnguarded ==
    /\ Len(genView.handlers) < MaxHandlers
    /\ genView' =
          [genView EXCEPT !.loading = TRUE, !.lastError = None, !.toast = None,
                          !.handlers = Append(genView.handlers,
                              Handler("handleFileSelect", genView.lastError, "reading"))]
    /\ UNCHANGED <<calls, webVars, elVars, platform, upload, updater, xmlPath, roundTrip>>

\* handleFileSelect up to `await readFileAsText(file)`
GenViewHandleFileSelect ==
    /\ Len(genView.handlers) < MaxHandlers
    /\ genView' =
          IF genView.loading THEN [genView EXCEPT !.toast = None]
          ELSE [genView EXCEPT !.loading = TRUE, !.lastError = None, !.toast = None,
                               !.handlers = Append(genView.handlers,
                                   Handler("handleFileSelect", genView.lastError, "reading"))]
    /\ UNCHANGED <<calls, webVars, elVars, platform, upload, updater, xmlPath, roundTrip>>

\* handleGenerate up to `await apiClient.generate`: it returns, or fails on
\* JSON.parse and is over, or sends the request
GenViewHandleGenerate ==
    /\ Len(genView.handlers) < MaxHandlers
    /\ genView' =
          IF Trim(genView.skeleton) = "" \/ genView.loading
          THEN [genView EXCEPT !.toast = None]
          ELSE IF JsonParse(genView.skeleton) = None
          THEN Caught([genView EXCEPT !.lastError = None,
                           !.handlers = Append(genView.handlers,
                               Handler("handleGenerate", genView.lastError, "ended"))],
                      "Invalid JSON format", genView.lastError)
          ELSE [genView EXCEPT !.loading = TRUE, !.lastError = None, !.toast = None,
                               !.handlers = Append(genView.handlers,
                                   Handler("handleGenerate", genView.lastError,
                                           "requesting"))]
    /\ UNCHANGED <<calls, webVars, elVars, platform, upload, updater, xmlPath, roundTrip>>

\* readFileAsText settles: handleFileSelect fails on the read or on
\* JSON.parse and is over, or sets the skeleton and sends the request
GenViewFileRead(h, content) ==
    /\ h \in DOMAIN genView.handlers
    /\ genView.handlers[h].stage = "reading"
    /\ genView' =
          IF content = None
          THEN Caught([genView EXCEPT !.handlers[h].stage = "ended"],
                      "Failed to read file", genView.handlers[h].closedOver)
          ELSE IF JsonParse(Get(content)) = None
          THEN Caught([genView EXCEPT !.handlers[h].stage = "ended"],
                      "Invalid JSON file", genView.handlers[h].closedOver)
          ELSE [genView EXCEPT !.skeleton = Get(content), !.toast = None,
                               !.handlers[h].stage = "requesting"]
    /\ UNCHANGED <<calls, webVars, elVars, platform, upload, updater, xmlPath, roundTrip>>

\* apiClient.generate settles: the rest of either handler, with its
\* finally block
GenViewRequestSettles(h, ok, message) ==
    /\ h \in DOMAIN genView.handlers
    /\ genView.handlers[h].stage = "requesting"
    /\ genView' =
          IF ok
          THEN [genView EXCEPT !.generated = Some(h), !.lastError = None,
                               !.toast = Some(Toast("success", "")),
                               !.loading = FALSE,
                               !.handlers[h].stage = "ended"]
          ELSE Caught([genView EXCEPT !.handlers[h].stage = "ended"],
                      message, genView.handlers[h].closedOver)
    /\ UNCHANGED <<calls, webVars, elVars, platform, upload, updater, xmlPath, roundTrip>>

(***************************************************************************)
(* JSON to OpenAPI and back: inferSchema of SwaggerView                    *)
(* (src/src/components/views/swagger-view.tsx 11-35) and                   *)
(* buildSkeletonFromSchema of GenerateFromSwaggerView                      *)
(* (src/src/components/views/generate-view.tsx 281-312).  The schema is    *)
(* written as JSON text in between; it holds only strings, booleans and    *)
(* plain objects, which JSON text carries unchanged.                       *)
(***************************************************************************)
\* a schema object as inferSchema writes it: `properties` and `items` are
\* None when the object has no such member
OpenApiSchema(type, properties, items, nullable) ==
    [type |-> type, properties |-> properties, items |-> items,
     nullable |-> nullable]
\* the object {}
EmptySchema == OpenApiSchema("", None, None, FALSE)
\* a number that is not an integer
Float(n) == Scalar("number", "float", n)

RECURSIVE inferSchema(_)
inferSchema(value) ==
    IF IsArray(value)
    THEN OpenApiSchema("array", None,
                       Some(IF Len(value.e) > 0 THEN inferSchema(value.e[1])
                            ELSE EmptySchema),
                       FALSE)
    ELSE IF IsObject(value)
    THEN OpenApiSchema("object",
                       Some([i \in 1 .. Len(value.f) |->
                                Prop(value.f[i].key, inferSchema(value.f[i].v))]),
                       None, FALSE)
    ELSE CASE value.t = "null" -> OpenApiSchema("string", None, None, TRUE)
           [] value.t = "string" -> OpenApiSchema("string", None, None, FALSE)
           [] value.t = "number" ->
                OpenApiSchema(IF value.c = "float" THEN "number" ELSE "integer",
                              None, None, FALSE)
           [] value.t = "boolean" -> OpenApiSchema("boolean", None, None, FALSE)
           [] OTHER -> OpenApiSchema("string", None, None, FALSE)

\* the placeholder of a property that is neither an object nor an array
Placeholder(type) ==
    CASE type = "string" -> Scalar("string", "placeholder", 0)
      [] type \in {"integer", "number"} -> Num(0)
      [] type = "boolean" -> Bool(0)
      [] OTHER -> Null

RECURSIVE buildSkeletonFromSchema(_)
RECURSIVE SkeletonOfProperty(_)
\* the value a property gets
SkeletonOfProperty(propSchema) ==
    IF propSchema.type = "object" THEN buildSkeletonFromSchema(propSchema)
    ELSE IF propSchema.type = "array"
    THEN Arr(<< buildSkeletonFromSchema(IF IsSome(propSchema.items)
                                        THEN Get(propSchema.items)
                                        ELSE EmptySchema) >>)
    ELSE Placeholder(propSchema.type)
buildSkeletonFromSchema(schema) ==
    IF schema.type = "object" /\ IsSome(schema.properties)
    THEN Obj([i \in 1 .. Len(Get(schema.properties)) |->
                 Fld(Get(schema.properties)[i].name,
                     SkeletonOfProperty(Get(schema.properties)[i].s))])
    ELSE Obj(<< >>)

\* the JSON values of nesting at most d: scalars, arrays of none, one or two
\* elements, objects of none or one field
JsonScalars == {Str("email", 0), Num(1), Float(1), Bool(1), Null}
RECURSIVE JsonValues(_)
JsonValues(d) ==
    IF d = 0 THEN JsonScalars
    ELSE LET inner == JsonValues(d - 1)
         IN  inner \cup {Arr(<< >>), Obj(<< >>)}
                   \cup {Arr(<< x >>) : x \in inner}
                   \cup {Arr(<< x, Null >>) : x \in inner}
                   \cup {Obj(<< Fld("a", x) >>) : x \in inner}
\* the JSON objects a user pastes: of no, one or two keys
JsonObjects ==
    {Obj(<< >>)}
        \cup {Obj(<< Fld("a", x) >>) : x \in JsonValues(MaxJsonDepth)}
        \cup {Obj(<< Fld("a", x), Fld("b", y) >>) :
                 x \in JsonValues(MaxJsonDepth), y \in JsonScalars}

\* a JSON object in SwaggerView, nothing derived from it yet
Pasted(v) == [json |-> v, schema |-> None, skeleton |-> None]

\* SwaggerView: generateOpenApi puts inferSchema of the object under
\* components.schemas.Root
GenerateOpenApi ==
    /\ roundTrip.schema = None
    /\ roundTrip' = [roundTrip EXCEPT !.schema = Some(inferSchema(roundTrip.json))]
    /\ UNCHANGED <<calls, webVars, elVars, platform, upload, updater, xmlPath,
                   genView>>

\* GenerateFromSwaggerView: the skeleton of the first schema of
\* components.schemas
SkeletonFromSwagger ==
    /\ IsSome(roundTrip.schema)
    /\ roundTrip.skeleton = None
    /\ roundTrip' = [roundTrip EXCEPT
                      !.skeleton = Some(buildSkeletonFromSchema(Get(roundTrip.schema)))]
    /\ UNCHANGED <<calls, webVars, elVars, platform, upload, updater, xmlPath,
                   genView>>

(***************************************************************************)
(* Initial states and specifications.                                      *)
(***************************************************************************)
CoreInit == calls = [c \in Calls |-> IdleCall]
WebInit == web = Mounted("generate") /\ wire = NoExchange
ElInit ==
    /\ el = [i \in Ipcs |-> IdleIpc]
    /\ files = [n \in FileNames |-> None]
    /\ procs = [i \in Ipcs |-> NoProc]
    /\ clock = 0

UploadInit == upload = UploadMounted(DefaultMaxSize)
UpdaterInit == updater = MainStarted("unset")
XmlPathInit == xmlPath = XmlPathMounted
GenViewInit == genView = GenerateViewMounted
SwaggerInit == roundTrip = Pasted(Obj(<< >>))
ShellInit == UploadInit /\ UpdaterInit /\ XmlPathInit /\ GenViewInit /\ SwaggerInit
Init == platform = "web" /\ CoreInit /\ WebInit /\ ElInit /\ ShellInit

CoreStep(c) ==
    \/ Reject(c)
    \/ CreateRng(c)
    \/ RunGenerate(c)
    \/ RunAnonymize(c)
    \/ RunAnalyze(c)
    \/ RunRandom(c)

\* one handler invocation at a time, on every request of CoreBodies
NextCore ==
    \/ \E r \in CoreRequests : Receive(1, r)
    \/ CoreStep(1)

\* two handler invocations, interleaved
NextConc ==
    \E c \in Calls :
        \/ \E r \in ConcRequests : Receive(c, r)
        \/ CoreStep(c)

\* the backend handles the request it was sent
BackendStep ==
    /\ platform = "web"
    /\ wire.st = "sent"
    /\ CoreStep(1)

\* the web app: the views, the client, and the backend handling the request,
\* for the texts the user may type and the faults the network may produce
NextWebOn(skeletons, seeds, counts, depths, fanouts, faults) ==
    \/ \E v \in Views : SetCurrentView(v)
    \/ \E t \in skeletons : SetSkeleton(t)
    \/ \E t \in seeds : SetSeed(t)
    \/ \E t \in counts : SetCount(t)
    \/ \E t \in depths : SetDepth(t)
    \/ \E t \in fanouts : SetMaxKeys(t)
    \/ \E t \in fanouts : SetMaxItems(t)
    \/ GenerateViewHandleGenerate
    \/ RandomJsonViewHandleGenerate
    \/ RandomXmlViewHandleGenerate
    \/ BackendStep
    \/ Respond
    \/ \E r \in faults : Fault(r)
    \/ RequestSettles
    \/ HandleGenerateResumes

\* the texts the user types
SkeletonTexts == {"", " ", TextBroken, TextUser, TextRootArray}
SeedTexts == {"", "0", "1"}
CountTexts == {"", "-1", "2"}
DepthTexts == {"", "-1", "0", "1"}
FanoutTexts == {"-1"}

\* what comes back when the request does not reach the handler, or the
\* handler's answer does not come back as it was sent
FaultResponses ==
    {FetchThrew("TypeError"), FetchThrew("AbortError")}
    \cup {Http(st, "<html>", NoJson) : st \in {200, 401, 404, 500, 502, 503, 504}}
    \cup {Http(st, raw, NoJson) : st \in {200, 400}, raw \in {"", " ", "null"}}
    \cup {Http(st, "json", JsonBody("object", su, er, da)) :
            st \in {200, 201, 400},
            su \in {"true", "false", "undefined"},
            er \in {None, Some(""), Some("boom")},
            da \in {None, Some(Null)}}

\* the views on every text, with a lost connection as the only fault
NextWeb ==
    NextWebOn(SkeletonTexts, SeedTexts, CountTexts, DepthTexts, FanoutTexts,
              {FetchThrew("TypeError")})

\* GenerateView and the client on every response, for a few texts
NextClient ==
    \/ SetSkeleton(TextUser)
    \/ SetSeed("1")
    \/ \E t \in {"-1", "2"} : SetCount(t)
    \/ GenerateViewHandleGenerate
    \/ BackendStep
    \/ Respond
    \/ \E r \in FaultResponses : Fault(r)
    \/ RequestSettles
    \/ HandleGenerateResumes

\* the contents the renderer passes to the content-mode handlers
ContentTexts == {"", TextBroken, TextUser}
ProcessEnds ==
    {"success", "Invalid JSON output", "Process exited with code 1", "spawn error"}

\* the Electron main process, its renderer sending the given texts
ElectronStep(texts) ==
    \/ Tick
    \/ \E i \in Ipcs :
          \/ \E ch \in Channels : \E t \in texts :
                \E k \in IF ch = "generate-data" THEN SeedTexts ELSE {""} :
                    Invoke(i, ch, t, SeedIfAnyText(k))
          \/ WriteDone(i)
          \/ FinallyUnlink(i)
          \/ ProcRead(i)
          \/ \E how \in ProcessEnds : ProcEnds(i, how)
          \/ UnlinkDone(i)
NextElectron == ElectronStep(ContentTexts)

\* the Electron main process alone, with two different documents to send
InitMain ==
    /\ platform \in ElectronPlatforms
    /\ CoreInit /\ WebInit /\ ElInit /\ ShellInit
NextMain == ElectronStep(ContentTexts \cup {TextRootArray})

\* the application, as the web app or as one of the Electron deployments
InitApp ==
    /\ platform \in {"web"} \cup ElectronPlatforms
    /\ CoreInit /\ WebInit /\ ElInit /\ ShellInit
NextApp == NextWeb \/ NextElectron

\* a FileUpload component, mounted with either limit
InitUpload ==
    /\ platform = "web"
    /\ CoreInit /\ WebInit /\ ElInit /\ UpdaterInit /\ XmlPathInit /\ GenViewInit
    /\ SwaggerInit
    /\ \E m \in MaxSizes : upload = UploadMounted(m)
NextUpload ==
    \/ \E b \in BOOLEAN : SetDisabled(b)
    \/ HandleDragOver
    \/ HandleDragLeave
    \/ \E size \in FileSizes : HandleDrop(size)
    \/ \E size \in FileSizes : HandleFileInput(size)
    \/ \E threw \in BOOLEAN : OnFileSelectSettles(threw)

\* the Electron main process and its update machinery, in every deployment
\* and environment
UpdateEvents == {"update-available", "update-not-available", "error"}
DownloadEvents == {"update-downloaded", "error"}
InitUpdater ==
    /\ CoreInit /\ WebInit /\ ElInit /\ UploadInit /\ XmlPathInit /\ GenViewInit
    /\ SwaggerInit
    /\ platform \in ElectronPlatforms
    /\ \E env \in DisableUpdatesValues : updater = MainStarted(env)
NextUpdater ==
    \/ ReadyToShow
    \/ StartupTimer
    \/ IpcCheckForUpdates
    \/ IpcCheckForUpdatesAndNotify
    \/ \E k \in 1 .. MaxChecks : \E e \in UpdateEvents : CheckEnds(k, e)
    \/ \E k \in 1 .. MaxChecks : \E e \in DownloadEvents : DownloadEnds(k, e)

\* an XmlPathView, its user and the responses of its requests
NextXmlPath ==
    \/ \E t \in XmlTexts : SetXmlInput(t)
    \/ \E t \in XpathTexts : SetXpathExpr(t)
    \/ ClearXmlPath
    \/ DebounceFires
    \/ ClickEvaluate
    \/ \E r \in 1 .. MaxXPathRequests : \E ok \in BOOLEAN : XPathSettles(r, ok)

\* a GenerateView, its user and the responses of its requests
NextGenView ==
    \/ \E t \in {"", TextBroken, TextUser} : GenViewSetSkeleton(t)
    \/ GenViewHandleGenerate
    \/ GenViewHandleFileSelect
    \/ \E h \in 1 .. MaxHandlers :
          \/ \E c \in FileContents : GenViewFileRead(h, c)
          \/ GenViewRequestSettles(h, TRUE, "")
          \/ \E m \in RequestErrors : GenViewRequestSettles(h, FALSE, m)

SpecUpdater == InitUpdater /\ [][NextUpdater]_vars
SpecGenView == Init /\ [][NextGenView]_vars

\* any JSON object, through both conversions
InitRoundTrip ==
    /\ platform = "web"
    /\ CoreInit /\ WebInit /\ ElInit
    /\ UploadInit /\ UpdaterInit /\ XmlPathInit /\ GenViewInit
    /\ roundTrip \in {Pasted(v) : v \in JsonObjects}
NextRoundTrip == GenerateOpenApi \/ SkeletonFromSwagger
SpecRoundTrip == InitRoundTrip /\ [][NextRoundTrip]_vars
SpecXmlPath == Init /\ [][NextXmlPath]_vars
SpecUpload == InitUpload /\ [][NextUpload]_vars
SpecWeb == Init /\ [][NextWeb]_vars
SpecApp == InitApp /\ [][NextApp]_vars
SpecMain == InitMain /\ [][NextMain]_vars
SpecClient == Init /\ [][NextClient]_vars
SpecCore == Init /\ [][NextCore]_vars
SpecConc == Init /\ [][NextConc]_vars

(***************************************************************************)
(* Properties of the data core.                                            *)
(***************************************************************************)
Done(c, op) == calls[c].st = "done" /\ OpOf(calls[c].body) = op
SeedGiven(req) == IsSome(req.options.seed) /\ ~Get(req.options.seed).nan

RECURSIVE SameShape(_, _)
\* d has the node kinds, keys and key order of skeleton s; an array of one
\* template element may have any length, each element shaped like the template
SameShape(s, d) ==
    /\ s.k = d.k
    /\ IsObject(s) =>
          /\ Len(d.f) = Len(s.f)
          /\ \A i \in 1 .. Len(s.f) :
                d.f[i].key = s.f[i].key /\ SameShape(s.f[i].v, d.f[i].v)
    /\ IsArray(s) =>
          IF Len(s.e) = 1
          THEN \A i \in 1 .. Len(d.e) : SameShape(s.e[1], d.e[i])
          ELSE /\ Len(d.e) = Len(s.e)
               /\ \A i \in 1 .. Len(s.e) : SameShape(s.e[i], d.e[i])

\* C1 -- Shape preservation: the document a generate call returns has, at
\* every path, the node kind of the skeleton and, for objects, the same keys
\* in the same order; only scalar values and the length of template arrays
\* differ.
C1_ShapePreserved ==
    \A c \in Calls :
        Done(c, "generate") =>
            SameShape(Get(calls[c].req.skeleton), Get(calls[c].res.data))

\* a generate call on the skeleton with a template, a heterogeneous array and
\* empty containers, under the schema, has repeated the template twice
C1_Witness ==
    /\ Done(1, "generate")
    /\ calls[1].req.skeleton = Some(SkelItems)
    /\ IsSome(calls[1].req.swagger)
    /\ Len(Get(calls[1].res.data).f[1].v.e) = 2
    /\ Len(Get(calls[1].res.data).f[2].v.e) = 2
    /\ Get(calls[1].res.data) # SkelItems

RECURSIVE SameStructure(_, _)
\* same keys, same array lengths, same nesting
SameStructure(a, b) ==
    /\ a.k = b.k
    /\ IsObject(a) =>
          /\ Len(b.f) = Len(a.f)
          /\ \A i \in 1 .. Len(a.f) :
                b.f[i].key = a.f[i].key /\ SameStructure(a.f[i].v, b.f[i].v)
    /\ IsArray(a) =>
          /\ Len(b.e) = Len(a.e)
          /\ \A i \in 1 .. Len(a.e) : SameStructure(a.e[i], b.e[i])

\* the leaves of the two documents differ only at paths in sp
DiffersOnlyAt(a, b, sp) ==
    LET la == Leaves(a, <<>>)
        lb == Leaves(b, <<>>)
    IN  /\ Len(la) = Len(lb)
        /\ \A i \in 1 .. Len(la) :
              /\ la[i].path = lb[i].path
              /\ ~IsSome(FlaggedAs(sp, la[i].path)) => la[i].v = lb[i].v

\* C3 -- Anonymization structural identity: anonymize(D) has the keys, array
\* lengths and nesting of D, and every leaf at a path classify(D) does not
\* return is copied unchanged.
C3_AnonymizePreservesStructure ==
    \A c \in Calls :
        Done(c, "anonymize") =>
            LET D == Get(calls[c].req.data)
                A == Get(calls[c].res.data)
            IN  SameStructure(D, A) /\ DiffersOnlyAt(D, A, Classify(D))

\* an anonymize call has replaced the email of a document and kept its two
\* other leaves
C3_Witness ==
    /\ Done(1, "anonymize")
    /\ calls[1].req.data = Some(DocEmail)
    /\ Get(calls[1].res.data).f[1].v # DocEmail.f[1].v
    /\ Get(calls[1].res.data).f[3].v = DocEmail.f[3].v

\* every leaf of doc at a path the index constrains by a non-empty enum is a
\* member of that enum
EnumsHold(doc, index) ==
    LET ls == Leaves(doc, <<>>)
    IN  \A i \in 1 .. Len(ls) :
            (ls[i].path \in DOMAIN index /\ Len(index[ls[i].path].enum) > 0)
            => InSeq(ls[i].v, index[ls[i].path].enum)

\* C4 -- Enum constraint satisfaction: when the schema passed to generate has
\* a non-empty enum at a path, every value generated at that path, in every
\* repetition of an array template, is a member of the enum, whatever the
\* key name or the example value suggest.
C4_EnumSatisfied ==
    \A c \in Calls :
        Done(c, "generate") =>
            EnumsHold(Get(calls[c].res.data), Resolve(calls[c].req.swagger))

\* a generate call under the schema has produced the `email` leaf and two
\* repetitions of `list[*].status`, all under an enum
C4_Witness ==
    /\ Done(1, "generate")
    /\ calls[1].req.skeleton = Some(SkelEnum)
    /\ calls[1].req.swagger = Some(SchemaEnum)
    /\ Len(Get(calls[1].res.data).f[2].v.e) = 2
    /\ Get(calls[1].res.data).f[1].v.c = "enum"
    /\ Get(calls[1].res.data).f[2].v.e[1] # Get(calls[1].res.data).f[2].v.e[2]

RECURSIVE Nesting(_)
RECURSIVE MaxNesting(_, _, _)
\* the number of container levels below a node
Nesting(doc) ==
    CASE IsObject(doc) ->
            MaxNesting([i \in 1 .. Len(doc.f) |-> doc.f[i].v], 1, 0)
      [] IsArray(doc)  -> MaxNesting(doc.e, 1, 0)
      [] OTHER         -> 0
MaxNesting(children, i, acc) ==
    IF i > Len(children) THEN acc
    ELSE LET here == IF IsScalar(children[i]) THEN 0
                     ELSE 1 + Nesting(children[i])
         IN  MaxNesting(children, i + 1, IF here > acc THEN here ELSE acc)

\* the depth a caller asked for, when it is a number
AskedDepth(req) ==
    IF IsSome(req.options.depth) /\ ~Get(req.options.depth).nan
    THEN Some(Get(req.options.depth).v) ELSE None

\* C5 -- Bounded random generation: a generateRandom call asked for depth
\* d >= 0 returns a document whose nesting level is at most d; at depth 0
\* it holds scalar leaves only.
C5_NestingBounded ==
    \A c \in Calls :
        (/\ Done(c, "generateRandom")
         /\ IsSome(AskedDepth(calls[c].req))
         /\ Get(AskedDepth(calls[c].req)) >= 0)
        => Nesting(Get(calls[c].res.data)) <= Get(AskedDepth(calls[c].req))

\* a generateRandom call asked for depth 2 has returned a document nested
\* exactly two levels deep
C5_Witness ==
    /\ Done(1, "generateRandom")
    /\ AskedDepth(calls[1].req) = Some(2)
    /\ Nesting(Get(calls[1].res.data)) = 2

\* the result of a call run alone on a body, from a given rng
ResultAlone(body, rng) ==
    CASE OpOf(body) = "generate"       -> GenerateResult(body, rng)
      [] OpOf(body) = "anonymize"      -> AnonymizeResult(body, rng)
      [] OpOf(body) = "analyze"        -> AnalyzeResult(body)
      [] OpOf(body) = "generateRandom" -> RandomResult(body, rng)
      [] OTHER                         -> NoResult

\* the results a call can return when it runs alone on its input and seed
ResultsAlone(body) ==
    IF BoundaryError(body) # "" THEN {Failure(BoundaryError(body))}
    ELSE {ResultAlone(body, r) : r \in CreatedRng(body)}

\* a step changes the record of one call at most
OneCallPerStep ==
    \A c \in Calls : \A d \in Calls :
        (c # d /\ calls'[c] # calls[c]) => calls'[d] = calls[d]

C7_KeyMatchesStayFlagged ==
    \A c \in Calls :
        Done(c, "anonymize") =>
            LET sp == Classify(Get(calls[c].req.data))
                sa == Classify(Get(calls[c].res.data))
            IN  \A i \in 1 .. Len(sp) :
                    IsSome(KeyNameCategory(LeafKey(sp[i].path)))
                    => FlaggedAs(sa, sp[i].path) = Some(sp[i].cat)

\* an anonymize call on a document with key-matched and value-matched leaves
\* has returned; a path flagged by its value alone is no longer flagged
C7_Witness ==
    /\ Done(1, "anonymize")
    /\ calls[1].req.data = Some(DocUsers)
    /\ Len(Classify(Get(calls[1].res.data))) < Len(Classify(DocUsers))
    /\ \E i \in 1 .. Len(Classify(DocUsers)) :
          IsSome(KeyNameCategory(LeafKey(Classify(DocUsers)[i].path)))


(***************************************************************************)
(* C8, C9: malformed input and invalid options.                            *)
(***************************************************************************)
\* GenerateView holds a skeleton text that is not parseable JSON and no
\* request of it is in flight
UnparseableSkeleton ==
    web.view = "generate" /\ wire.st = "none" /\ JsonParse(web.skeleton) = None

\* whatever happens next, no request leaves and the backend is not reached;
\* when it is handleGenerate that ran, it threw before its first await,
\* showed no document, and left the view not loading
NothingSent ==
    UnparseableSkeleton =>
        /\ wire' = wire
        /\ calls' = calls
        /\ web'.ran # "" =>
              /\ web'.ran = "threw"
              /\ ~web'.loading
              /\ web'.generated = web.generated
              /\ web'.toast # None => Get(web'.toast).variant = "destructive"

\* a content-mode invocation whose content is not parseable JSON has ended
\* with an error, has written no file and has no process
NothingWritten(i) ==
    (el[i].st # "idle" /\ JsonParse(el[i].content) = None) =>
        /\ el[i].st = "settled"
        /\ el[i].outcome = "rejected" \/ el[i].value = "No data provided"
        /\ el[i].value # "success"
        /\ ~el[i].wrote
        /\ procs[i] = NoProc

\* C8: when the skeleton text is not parseable JSON, the operation fails
\* before any backend work starts: the web GenerateView sends no
\* /api/generate request (its handler throws 'Invalid JSON format' and the
\* backend receives nothing), and an Electron content-mode handler settles
\* with an error without writing a temporary file or spawning a process.
C8_MalformedNeverProcessed ==
    /\ [](\A i \in Ipcs : NothingWritten(i))
    /\ [][NothingSent]_vars

\* GenerateView has just thrown on an unparseable skeleton and shown the error
C8_Witness ==
    /\ web.view = "generate"
    /\ web.skeleton = TextBroken
    /\ web.ran = "threw"
    /\ web.toast = Some(Toast("destructive", "Invalid JSON format"))
    /\ wire.st = "none"
    /\ calls[1].st = "idle"

\* an Electron handler has rejected unparseable content while another
\* invocation's temporary file exists
C8_WitnessElectron ==
    \E i, j \in Ipcs :
        /\ el[i].content = TextBroken
        /\ el[i].outcome = "rejected"
        /\ el[j].wrote
        /\ \E n \in FileNames : Exists(n)

\* the count or depth the user asked for is negative
AskedNegative(asked) ==
    \/ HasText(asked.count) /\ Number(asked.count).v < 0
    \/ HasText(asked.depth) /\ Number(asked.depth).v < 0
\* the count or depth of the request that was sent is negative
SentNegative(body) ==
    Negative(body.options.count) \/ Negative(body.options.depth)
Settled == wire.st \in {"resolved", "rejected"}

C9_WitnessReplaced ==
    /\ wire.st = "resolved"
    /\ wire.view = "randomJson"
    /\ wire.asked.depth = "-1"
    /\ wire.served = "done"

(***************************************************************************)
(* C10: APIClient.request.                                                 *)
(***************************************************************************)
\* the response is ok and its body is non-empty valid JSON
OkJson(resp) ==
    /\ resp.net = "ok"
    /\ ResponseOk(resp)
    /\ Trim(resp.raw) # ""
    /\ ParseBody(resp) # None
\* the body has success === false, or lacks success and carries an error field
FailedCarrying(b) ==
    b.success = "false" \/ (b.success = "undefined" /\ b.error # None)
\* the body has success === false, or lacks success and carries an error
\* that is not empty
FailedTruthy(b) ==
    b.success = "false"
    \/ (b.success = "undefined" /\ b.error # None /\ Get(b.error) # "")

\* C10 as stated: request resolves only for an ok response with a non-empty
\* valid JSON body that neither has success === false nor lacks success
\* while carrying an error field, and every rejection is an APIError.
C10_AsStated ==
    Settled =>
        /\ wire.st = "resolved" =>
              /\ OkJson(wire.resp)
              /\ ~FailedCarrying(Get(ParseBody(wire.resp)))
              /\ wire.result.data = Get(ParseBody(wire.resp))
        /\ wire.st = "rejected" => wire.result.err.name = "APIError"

\* C10, amended: request resolves, with the parsed body, only when the
\* response is ok, its body is non-empty valid JSON, and the body neither
\* has success === false nor lacks success while carrying a non-empty
\* (truthy) error field; in every other case (404, 5xx, empty body, invalid
\* JSON, non-ok status, failed operation, network failure) it rejects, and
\* every rejection is an APIError.
C10_RequestContract ==
    Settled =>
        /\ wire.st = "resolved" =>
              /\ OkJson(wire.resp)
              /\ ~FailedTruthy(Get(ParseBody(wire.resp)))
              /\ wire.result.data = Get(ParseBody(wire.resp))
        /\ ~(OkJson(wire.resp) /\ ~FailedTruthy(Get(ParseBody(wire.resp))))
              => wire.st = "rejected"
        /\ wire.st = "rejected" =>
              /\ wire.result.err.name = "APIError"
              /\ wire.resp.net = "ok" => wire.result.err.status \in {wire.resp.status, 500}
              /\ wire.resp.net = "TypeError" => wire.result.err.status = 0

\* a 200 body without success whose error field is the empty string resolves
C10_Witness ==
    /\ wire.st = "resolved"
    /\ wire.resp = Http(200, "json", JsonBody("object", "undefined", Some(""), Some(Null)))
    /\ wire.result.data = wire.resp.obj

\* a fetch that was aborted is rejected as an APIError with status 500
C10_WitnessAborted ==
    /\ wire.st = "rejected"
    /\ wire.resp = FetchThrew("AbortError")
    /\ wire.result.err = APIError("The operation was aborted", 500)


(***************************************************************************)
(* C11: seed forwarding.                                                   *)
(***************************************************************************)
\* the seed the user typed, as the number it denotes (none for a blank input)
SuppliedSeed(text) == NumberIfText(text)

\* the request a web view has sent carries the seed its input holds
WebSeedForwarded(view) ==
    (wire.st = "sent" /\ wire.view = view) =>
        wire.body.options.seed = SuppliedSeed(web.seed)

\* the process spawned for 'generate-data' got the seed the handler received
ElectronSeedForwarded ==
    \A i \in Ipcs :
        (procs[i].st # "none" /\ el[i].channel = "generate-data") =>
            procs[i].seed = el[i].seed

\* C11: every numeric seed the user supplies, including 0, reaches the
\* backend unchanged (options.seed of the HTTP body, or the --seed argument
\* of the spawned backend), and the seed is omitted only when none was
\* supplied.
C11_SeedForwarded ==
    /\ \A v \in Views : WebSeedForwarded(v)
    /\ ElectronSeedForwarded


(***************************************************************************)
(* C12: import size limit.                                                 *)
(***************************************************************************)
\* the step is a file handler of FileUpload given a file of `size` bytes
FileHandled(handler, size) ==
    upload'.last = FileEvent(handler, size)
OverLimit(size) == size > upload.maxSize * 1024 * 1024
Ignored(handler) == handler = "handleDrop" /\ upload.disabled

\* what a file handler does with a file
FileStep(handler, size) ==
    FileHandled(handler, size) =>
        /\ OverLimit(size) => upload'.passed = upload.passed
        /\ (OverLimit(size) /\ ~Ignored(handler)) =>
              /\ upload'.error = Some("File size exceeds limit")
              /\ upload'.pending = upload.pending
        /\ (~OverLimit(size) /\ ~Ignored(handler)) =>
              /\ upload'.passed = Append(upload.passed, size)
              /\ upload'.pending = upload.pending + 1
              /\ upload'.error = None
        /\ Ignored(handler) =>
              /\ upload'.passed = upload.passed
              /\ upload'.pending = upload.pending
              /\ upload'.error = upload.error
              /\ ~upload'.isDragging

\* C12: a file larger than maxSize x 1024 x 1024 bytes (10 MB by default) is
\* never passed to onFileSelect and an error message is set instead; a file
\* at or below the limit is passed to onFileSelect exactly once; a file
\* dropped while the component is disabled is ignored.
C12_ImportSizeLimit ==
    [][\A handler \in {"handleDrop", "handleFileInput"} :
          \A size \in FileSizes : FileStep(handler, size)]_vars

\* with the default limit: a file of exactly 10 MB was passed on, then a file
\* one byte larger was dropped and refused
C12_Witness ==
    /\ upload.maxSize = 10
    /\ upload.passed = << 10485760 >>
    /\ upload.last = FileEvent("handleDrop", 10485761)
    /\ upload.error = Some("File size exceeds limit")

\* a file was dropped on the disabled component while an earlier error shows
C12_WitnessDisabled ==
    /\ upload.disabled
    /\ upload.last.handler = "handleDrop"
    /\ upload.error # None
    /\ upload.passed = << >>


(***************************************************************************)
(* C13: update gating.                                                     *)
(***************************************************************************)
\* ./updater was required, an UpdateManager was constructed, the start-up
\* timer was set, or autoUpdater was given a check
UpdateMachineryRan ==
    \/ updater.loaded
    \/ updater.manager
    \/ updater.timer # "none"
    \/ updater.checks # << >>

\* the step is the 'check-for-updates' handler, and all it does is send
\* `status` to the window
OnlySends(status) ==
    updater' = [updater EXCEPT !.sent = Some(status), !.ran = "check-for-updates"]

CheckRequestGated ==
    updater'.ran = "check-for-updates" =>
        /\ ~IsPackaged => OnlySends("not-available")
        /\ (IsPackaged /\ updater.env = "true") => OnlySends("error")

\* C13: the update machinery runs only when the app is packaged and
\* DISABLE_UPDATES is not 'true'; a 'check-for-updates' request in an
\* unpackaged app only sends status 'not-available', in a packaged app with
\* updates disabled it only sends status 'error', and neither starts a check.
C13_UpdateGating ==
    /\ [](UpdateMachineryRan => (platform = "electron" /\ updater.env # "true"))
    /\ [][CheckRequestGated]_vars

\* a packaged app with DISABLE_UPDATES=true has answered a request with 'error'
C13_Witness ==
    /\ platform = "electron"
    /\ updater.env = "true"
    /\ updater.window = "shown"
    /\ updater.ran = "check-for-updates"
    /\ updater.sent = Some("error")
    /\ updater.checks = << >>

\* an unpackaged app has answered a request with 'not-available'
C13_WitnessUnpackaged ==
    /\ platform = "electronDev"
    /\ updater.ran = "check-for-updates"
    /\ updater.sent = Some("not-available")
    /\ ~updater.manager

\* a packaged app with updates enabled runs a manual check
C13_WitnessEnabled ==
    /\ platform = "electron"
    /\ updater.env = "false"
    /\ updater.manager
    /\ Len(updater.checks) = 1
    /\ updater.checks[1].origin = "manual"


(***************************************************************************)
(* C14: array templates.                                                   *)
(***************************************************************************)
\* N: the count the caller set, else the default
AskedCount(req) ==
    IF IsSome(req.options.count) /\ ~Get(req.options.count).nan
    THEN Get(req.options.count).v ELSE 1

RECURSIVE FollowsTemplates(_, _, _)
\* d is built from skeleton s: an array of one template element has n
\* elements, each built from the template; a longer array has the same
\* length, element i built from element i; empty containers stay empty
FollowsTemplates(s, d, n) ==
    /\ s.k = d.k
    /\ IsObject(s) =>
          /\ Len(d.f) = Len(s.f)
          /\ \A i \in 1 .. Len(s.f) :
                d.f[i].key = s.f[i].key /\ FollowsTemplates(s.f[i].v, d.f[i].v, n)
    /\ IsArray(s) =>
          IF Len(s.e) = 1
          THEN /\ Len(d.e) = n
               /\ \A i \in 1 .. n : FollowsTemplates(s.e[1], d.e[i], n)
          ELSE /\ Len(d.e) = Len(s.e)
               /\ \A i \in 1 .. Len(s.e) : FollowsTemplates(s.e[i], d.e[i], n)

IsEmptyContainer(node) ==
    (IsObject(node) /\ Len(node.f) = 0) \/ (IsArray(node) /\ Len(node.e) = 0)

RECURSIVE WithoutEmpties(_)
RECURSIVE FieldsWithoutEmpties(_, _, _)
\* the skeleton without the object members that are empty containers
WithoutEmpties(node) ==
    CASE IsObject(node) -> Obj(FieldsWithoutEmpties(node.f, 1, << >>))
      [] IsArray(node)  -> Arr([i \in 1 .. Len(node.e) |-> WithoutEmpties(node.e[i])])
      [] OTHER          -> node
FieldsWithoutEmpties(fs, i, acc) ==
    IF i > Len(fs) THEN acc
    ELSE FieldsWithoutEmpties(fs, i + 1,
            IF IsEmptyContainer(fs[i].v) THEN acc
            ELSE Append(acc, Fld(fs[i].key, WithoutEmpties(fs[i].v))))

\* the leaves of the returned document are the leaves the same call returns
\* for the skeleton without its empty containers: these drew nothing
EmptiesDrawNothing(c) ==
    LET skel == Get(calls[c].req.skeleton)
        bare == [calls[c].body EXCEPT !.skeleton = Some(WithoutEmpties(skel))]
    IN  Leaves(Get(calls[c].res.data), << >>)
            = Leaves(Get(GenerateResult(bare, calls[c].rng).data), << >>)

\* C14: in the document a generate call returns, an array whose skeleton has
\* exactly one element has N elements (N = options.count if set, else the
\* default), each built from that template; an array whose skeleton has more
\* elements has the same length, element i built from skeleton element i; an
\* empty array or object stays empty and consumes no random draw.
C14_ArrayTemplates ==
    \A c \in Calls :
        Done(c, "generate") =>
            /\ FollowsTemplates(Get(calls[c].req.skeleton), Get(calls[c].res.data),
                                AskedCount(calls[c].req))
            /\ EmptiesDrawNothing(c)

\* a call with count 2 on the skeleton with empty containers ahead of its
\* leaves has returned two rows, the empty containers still empty
C14_Witness ==
    /\ Done(1, "generate")
    /\ calls[1].req.skeleton = Some(SkelGaps)
    /\ calls[1].req.options.count = Some(JsNum(2))
    /\ Get(calls[1].res.data).f[1].v = Arr(<< >>)
    /\ Get(calls[1].res.data).f[2].v = Obj(<< >>)
    /\ Len(Get(calls[1].res.data).f[4].v.e) = 2
    /\ Get(calls[1].res.data).f[4].v.e[1] # Get(calls[1].res.data).f[4].v.e[2]

\* a call with count 0 has returned an empty array for a template
C14_WitnessZero ==
    /\ Done(1, "generate")
    /\ calls[1].req.skeleton = Some(SkelItems)
    /\ calls[1].req.options.count = Some(JsNum(0))
    /\ Get(calls[1].res.data).f[1].v = Arr(<< >>)
    /\ Len(Get(calls[1].res.data).f[2].v.e) = 2

\* the descriptor bounds a leaf path is under (satisfiable: lower <= upper)
Bounded(index, path) ==
    /\ path \in DOMAIN index
    /\ Len(index[path].enum) = 0
    /\ index[path].bounds # NoBounds

\* every leaf of doc at a bounded path is inside its bounds
BoundsHold(doc, index) ==
    LET ls == Leaves(doc, <<>>)
    IN  \A i \in 1 .. Len(ls) :
            Bounded(index, ls[i].path) => InBounds(ls[i].v, index[ls[i].path].bounds)

\* at every bounded leaf of the skeleton and from every generator state,
\* resampling draws between one and RetryCap samples, returns a value inside
\* the bounds, and returns the last sample clamped when the cap is exhausted
ResamplingCapped(skel, index) ==
    LET ls == Leaves(skel, <<>>)
    IN  \A i \in 1 .. Len(ls) : \A r \in RngStates :
            Bounded(index, ls[i].path) =>
                LET b   == index[ls[i].path].bounds
                    cat == InferCategory(ls[i].path, ls[i].v, Lookup(index, ls[i].path))
                    out == Resample(cat, b, r, 0)
                IN  /\ out.tries \in 1 .. RetryCap
                    /\ InBounds(out.val, b)
                    /\ out = Synthesize(cat, Lookup(index, ls[i].path), r)
                                @@ [tries |-> out.tries]
                    /\ (\A k \in 0 .. (RetryCap - 1) :
                            ~InBounds(PoolValue(cat, RngAfter(r, k)), b))
                        => /\ out.tries = RetryCap
                           /\ out.val = Clamp(PoolValue(cat, RngAfter(r, RetryCap - 1)), b)

Signals(path, value, index) ==
    << IF path \in DOMAIN index THEN FormatCategory(index[path]) ELSE None,
       KeyNameCategory(LeafKey(path)),
       ValueShapeCategory(value),
       Some("unknown") >>
\* the category of the first available signal
FirstAvailable(sig) ==
    Get(sig[CHOOSE i \in 1 .. Len(sig) :
                IsSome(sig[i]) /\ \A j \in 1 .. (i - 1) : ~IsSome(sig[j])])
\* a value is of the category: its type and the pool it was drawn from
OfCategory(v, cat) ==
    /\ v.t = CategoryType(cat)
    /\ v.c = (IF cat = "unknown" THEN "freeText" ELSE cat)
\* the leaf was synthesized by category: no enum decides it, and it is not a
\* null the generator kept
ByCategory(leaf, index) ==
    /\ ~(leaf.path \in DOMAIN index /\ Len(index[leaf.path].enum) > 0)
    /\ leaf.v.t # "null"

\* C16 -- Category precedence: every generated leaf is of the category of the
\* first available signal of its skeleton leaf, in the order schema
\* format/type at the path, key-name pattern, shape of the example value,
\* default; where a schema format and the key name give different categories
\* the value is of the format's category.
C16_CategoryPrecedence ==
    \A c \in Calls :
        Done(c, "generate") =>
            LET index == Resolve(calls[c].req.swagger)
                ss    == Leaves(Get(calls[c].req.skeleton), <<>>)
                ds    == Leaves(Get(calls[c].res.data), <<>>)
            IN  \A i \in 1 .. Len(ds) :
                    ByCategory(ds[i], index) =>
                        /\ \E j \in 1 .. Len(ss) :
                              /\ ss[j].path = ds[i].path
                              /\ OfCategory(ds[i].v,
                                      FirstAvailable(Signals(ss[j].path, ss[j].v, index)))
                        /\ \A j \in 1 .. Len(ss) :
                              LET sig == Signals(ss[j].path, ss[j].v, index)
                              IN  (ss[j].path = ds[i].path /\ IsSome(sig[1])
                                      /\ IsSome(sig[2]) /\ sig[1] # sig[2])
                                  => OfCategory(ds[i].v, Get(sig[1]))

\* a generate call under the schema has produced `email` as a uuid and
\* `phone` as an integer (schema against key name), `telephone` as a phone
\* number and `contactEmail` as an email (key name against example), `ref`
\* as a uuid (example alone) and `memo` as free text (default)
C16_Witness ==
    /\ Done(1, "generate")
    /\ calls[1].req.swagger = Some(SchemaSignals)
    /\ LET f == Get(calls[1].res.data).f
       IN  /\ f[1].v.c = "uuid" /\ f[2].v.c = "integer" /\ f[3].v.c = "date"
           /\ f[4].v.c = "phone" /\ f[5].v.c = "email" /\ f[6].v.c = "uuid"
           /\ f[7].v.c = "freeText"

\* path p is path q or lies beneath it
Beneath(p, q) == Len(p) >= Len(q) /\ SubSeq(p, 1, Len(q)) = q

\* the index of the malformed schema m: the empty constraint at the malformed
\* fragment, nothing beneath it, and elsewhere what the schema without the
\* fragment resolves to
DegradesGracefully(m) ==
    LET index == Resolve(Some(m.schema))
        clean == Resolve(Some(m.without))
        rest  == {p \in DOMAIN index : ~Beneath(p, m.at)}
    IN  /\ m.at \in DOMAIN index
        /\ index[m.at].type = "unknown"
        /\ [index[m.at] EXCEPT !.required = FALSE] = EmptyConstraint(FALSE)
        /\ \A p \in DOMAIN index : Beneath(p, m.at) => p = m.at
        /\ rest = {p \in DOMAIN clean : ~Beneath(p, m.at)}
        /\ \A p \in rest : index[p] = clean[p]

\* C17 -- Resolver robustness: under a schema with a fragment that lacks a
\* type, has an unknown type string or refers back to a component being
\* expanded, a generate call completes; the resolved index has the empty
\* constraint (type unknown) at the fragment and no entry beneath it, and at
\* every other path the descriptor the schema without the fragment gives.
C17_ResolverRobust ==
    \A c \in Calls : \A m \in MalformedCases :
        (Done(c, "generate") /\ calls[c].req.swagger = Some(m.schema)) =>
            /\ DegradesGracefully(m)
            /\ calls[c].res.success
            /\ EnumsHold(Get(calls[c].res.data), Resolve(Some(m.without)))

\* a generate call under the schema whose `user` refers to a component that
\* refers to itself has completed: `user.id` resolved through the reference,
\* `user.next` is the empty constraint, `list[*].status` took an enum value
C17_Witness ==
    /\ Done(1, "generate")
    /\ calls[1].req.swagger = Some(SchemaAround(<< Prop("user", SRef("Node")) >>))
    /\ LET index == Resolve(calls[1].req.swagger)
       IN  /\ index[<< "user", "id" >>].type = "integer"
           /\ index[<< "user", "id" >>].required
           /\ index[<< "user", "next" >>].type = "unknown"
           /\ << "user", "next", "id" >> \notin DOMAIN index
    /\ Get(calls[1].res.data).f[3].v.e[1].f[1].v.c = "enum"
\* the same for a fragment with an unknown type string
C17_WitnessUnknownType ==
    /\ Done(1, "generate")
    /\ calls[1].req.swagger = Some(SchemaAround(<< Prop("user", Carried("money")) >>))
    /\ Resolve(calls[1].req.swagger)[<< "user" >>].type = "unknown"

(***************************************************************************)
(* Properties of the temporary files of the Electron main process.         *)
(***************************************************************************)
\* a content-mode request of 'generate-data', 'analyze-data' or
\* 'anonymize-data' that has a temporary file
ContentMode(i) == CleansOnClose(el[i].channel) /\ IsSome(el[i].tempFile)
\* its backend process is running: it has not finished with its file
ProcessBusy(i) == procs[i].st = "running"
\* its temporary file is in use: being written, or given to a running process
FileInUse(i) == el[i].st = "writing" \/ ProcessBusy(i)

\* C18 -- Temp-file isolation: two content-mode requests handled concurrently
\* never have the same temporary file in use, the backend process of a
\* request reads nothing but the content of that request, and the file of a
\* running process has not been deleted.
C18_TempFileIsolation ==
    \A i \in Ipcs :
        ContentMode(i) =>
            /\ \A j \in Ipcs \ {i} :
                  (ContentMode(j) /\ FileInUse(i) /\ FileInUse(j))
                      => el[i].tempFile # el[j].tempFile
            /\ IsSome(procs[i].read) => procs[i].read = Some(el[i].content)
            /\ ProcessBusy(i) => Exists(Get(el[i].tempFile))

\* C19 -- In 'generate-json-from-content' the temporary skeleton file exists
\* for as long as the spawned backend process runs: it is neither deleted nor
\* being deleted before the process has closed or failed to start.
C19_FileOutlivesProcess ==
    \A i \in Ipcs :
        (el[i].channel = "generate-json-from-content" /\ ProcessBusy(i)) =>
            /\ Exists(Get(el[i].tempFile))
            /\ ~el[i].unlinking

\* the promise of a content-mode request has settled after its temporary
\* file was written, and no other request has used the same file
SettledAfterWrite(i) ==
    /\ ContentMode(i)
    /\ el[i].st = "settled"
    /\ el[i].wrote
    /\ \A j \in Ipcs \ {i} : el[j].tempFile # el[i].tempFile

\* C20 -- Temp-file cleanup: when the promise of a content-mode request of
\* 'generate-data', 'analyze-data' or 'anonymize-data' has settled after the
\* temporary file was written (process closed with any exit code, spawn
\* error, Python script not found), the temporary file has been deleted.
C20_TempFileCleanedUp ==
    \A i \in Ipcs :
        SettledAfterWrite(i) => ~Exists(Get(el[i].tempFile))

(***************************************************************************)
(* Properties of the update manager.                                       *)
(***************************************************************************)
\* the step hands a call to autoUpdater
InvokesAutoUpdater == Len(updater'.checks) > Len(updater.checks)
\* a check was started and has not reached 'update-available',
\* 'update-not-available' or 'error'
CheckInProgress ==
    \E k \in DOMAIN updater.checks : updater.checks[k].stage \in {"checking", "joined"}

\* C21 -- At most one update check is in progress at any time: while a check
\* that was started has not reached its terminal event, no call of
\* checkForUpdates or checkForUpdatesAndNotify invokes autoUpdater.
C21_OneCheckAtATime == [][InvokesAutoUpdater => ~CheckInProgress]_vars

\* C22 -- Update dialogs are shown only for manual checks: the handler of an
\* 'update-available', 'update-not-available', 'error' or 'update-downloaded'
\* event shows its dialog when the check that caused the event was a manual
\* one (checkForUpdates), and shows none when it was an automatic one
\* (checkForUpdatesAndNotify), in every interleaving of manual and automatic
\* checks.
C22_DialogsFollowOrigin ==
    IsSome(updater.event) =>
        (updater.dialog <=> updater.checks[Get(updater.event).check].origin = "manual")

(***************************************************************************)
(* Properties of the views.                                                *)
(***************************************************************************)
\* all XPath requests have completed and none is about to start
XPathQuiet ==
    /\ xmlPath.timer = None
    /\ \A r \in DOMAIN xmlPath.requests : xmlPath.requests[r].outcome # "pending"
\* the request made last
LatestRequest == xmlPath.requests[Len(xmlPath.requests)]
\* what is displayed is the outcome of request q
Displays(q) ==
    IF q.outcome = "ok"
    THEN xmlPath.result = Some(q.pair) /\ xmlPath.error = None
    ELSE xmlPath.result = None /\ xmlPath.error = Some(q.pair)

\* C23 -- XmlPathView shows no stale result: once all XPath requests have
\* completed, the displayed result or error is the outcome of the request
\* for the most recent (xmlInput, xpathExpr) pair; result and error are never
\* both set; while either input is blank the result is null.
C23_NoStaleResult ==
    /\ (XPathQuiet /\ xmlPath.requests # << >>
          /\ LatestRequest.pair = Pair(xmlPath.xmlInput, xmlPath.xpathExpr))
           => Displays(LatestRequest)
    /\ ~(IsSome(xmlPath.result) /\ IsSome(xmlPath.error))
    /\ EitherBlank(xmlPath.xmlInput, xmlPath.xpathExpr) => xmlPath.result = None

\* handler h has a generate request in flight
Requesting(h) == genView.handlers[h].stage = "requesting"
\* handler h has started and is not over
Running(h) == genView.handlers[h].stage \in {"reading", "requesting"}
\* the step starts a handler past its guard
StartsHandler == Len(genView'.handlers) > Len(genView.handlers)
\* the step is the end of a handler
EndsHandler ==
    \E h \in DOMAIN genView.handlers :
        Running(h) /\ genView'.handlers[h].stage = "ended"

\* C24 -- GenerateView has at most one generate request in flight:
\* handleGenerate and handleFileSelect start nothing while loading is true,
\* loading is true for as long as a request is in flight (and a file is being
\* read), and it is false again after every end of a handler, success or
\* failure.
C24_OneRequestInFlight ==
    /\ [](/\ Cardinality({h \in DOMAIN genView.handlers : Running(h)}) <= 1
          /\ (\E h \in DOMAIN genView.handlers : Running(h)) <=> genView.loading)
    /\ [][/\ StartsHandler => ~genView.loading
          /\ EndsHandler => ~genView'.loading]_vars

\* the one handler that ran, handleFileSelect, has had its request fail, and
\* loading is reset
C24_Witness ==
    /\ Len(genView.handlers) = 1
    /\ genView.handlers[1] = Handler("handleFileSelect", None, "ended")
    /\ genView.lastError = Some("Failed to fetch")
    /\ ~genView.loading
\* a request of handleGenerate is in flight
C24_WitnessInFlight ==
    /\ \E h \in DOMAIN genView.handlers :
          Requesting(h) /\ genView.handlers[h].kind = "handleGenerate"
    /\ genView.loading

\* the keys of an object
KeysOf(d) == {d.f[i].key : i \in 1 .. Len(d.f)}
\* the value of the field `key` of an object
FieldOf(d, key) == d.f[CHOOSE i \in 1 .. Len(d.f) : d.f[i].key = key].v
\* s has the keys and node kinds of v at every path, an array of v that is
\* not empty being a one-element array for v's first element
RECURSIVE KeepsShape(_, _)
KeepsShape(v, s) ==
    /\ s.k = v.k
    /\ IsObject(v) =>
          /\ KeysOf(s) = KeysOf(v)
          /\ \A key \in KeysOf(v) : KeepsShape(FieldOf(v, key), FieldOf(s, key))
    /\ (IsArray(v) /\ Len(v.e) > 0) =>
          /\ Len(s.e) = 1
          /\ KeepsShape(v.e[1], s.e[1])

\* C25 -- schema/skeleton round trip: for every JSON object v,
\* buildSkeletonFromSchema(inferSchema(v)) has the key set of v at every
\* object path and the node kind of v at every path, each non-empty array of
\* v being a one-element array whose element has the node kind of v's first
\* element.
C25_RoundTrip ==
    IsSome(roundTrip.skeleton) => KeepsShape(roundTrip.json, Get(roundTrip.skeleton))
====
